---------------------------- MODULE Spec2Model ----------------------------
(***************************************************************************)
(* A model of pgwasdbi, the importer of GWAS datasets into PostgreSQL:     *)
(*   - the find-or-create insert wrappers of util/insert.py, run by one or *)
(*     two database sessions (SpecDB);                                     *)
(*   - the asynchronous bulk loader of variant positions (SpecVar);        *)
(*   - the configuration validator of util/validate.py and the entry       *)
(*     points that run validation and then the import (SpecConf, SpecMain).*)
(* PostgreSQL is modelled by what the statements of the source rely on:    *)
(* READ COMMITTED visibility, "=" that is never true of NULL, unique       *)
(* indexes that treat NULLs as distinct, INSERT .. ON CONFLICT DO NOTHING  *)
(* that waits for an uncommitted conflicting row, and COPY that is atomic. *)
(***************************************************************************)
EXTENDS Integers, Sequences, FiniteSets, TLC

VARIABLES
  \* ---- the database schema and the insert wrappers (SpecDB)
  kind,       \* the entity table the behaviour is about
  uniq,       \* whether the schema declares the natural key UNIQUE
  nproc,      \* number of sessions importing (1: a single connection)
  table,      \* rows of the entity table: [id, key, by, committed]
  nextId,     \* the table's id sequence
  pc,         \* per session: position inside the insert wrapper
  arg,        \* per session: natural key of the call in progress
  newID,      \* per session: id returned by the INSERT in progress
  raced,      \* per session: the call passed its existence check while
              \* another call for the same key had passed it and not inserted
  log,        \* completed calls: [proc, key, ret, suppressed, raced]
  \* ---- the asynchronous variant loader (SpecVar)
  vtable,     \* rows of the variant table: [id, s, c, p]
  vnextId,    \* the variant table's id sequence
  vpc,        \* position inside insert_variants_from_file_async
  vdata,      \* df: the (species, chromosome, position) tuples of the file
  vidx,       \* index of the next tuple validate_variant_sync looks up
  vresults,   \* results: the tuples kept by validate_variant_sync
  vreport,    \* the count variant_sync_run returned (-1: none yet)
  vbefore,    \* the variant table when the load started
  vlookups,   \* lookups completed when copy_records_to_table was issued
  vloads,     \* loads started so far
  \* ---- the configuration validator and the entry points (SpecConf, SpecMain)
  entry,      \* "main" (pgwasdbi.main) or "__main__" (the __main__ block)
  sel,        \* args.validate: [given |-> FALSE] for None, else its steps
  dryrun,     \* args.dryrun
  confSet,    \* whether the caller's args carries a conf attribute
  skipFlag,   \* args.skip_genotype_validation: "absent", "true" or "false"
  present,    \* keys of the manifest
  values,     \* the manifest's values of the keys whose value varies
  nchr,       \* conf['number_of_chromosomes']
  fs,         \* the files: per path "missing", "good" or "bad" (content
              \* that breaks the rule of its kind, e.g. an allele code 3)
  mpc,        \* position inside the entry point / validate_configuration
  expanded,   \* whether the filename templates have been substituted
  locations,  \* the list of file descriptors [filetype, filename]
  lidx,       \* index of the next location to check or validate
  checked,    \* paths given to os.path.isfile, in order
  validated,  \* paths given to a schema validator, in order
  errors,     \* errors raised so far: [type, keys, path]
  phases,     \* events of the run, in order: validation started / passed,
              \* each design or collect phase started
  inserts,    \* rows the run inserted: [kind, chr, bad]
  \* ---- the loader of GWAS results (SpecGwas)
  gtable,     \* rows of the gwas_run table: [id, trait, nsnps, nlines]
  gfile,      \* rows of the results file: [trait, nsnps, nlines]
  gidx,       \* index of the next row of the file
  gresults,   \* gwas_result rows inserted: their gwas_result_gwas_run
  \* ---- the ids that design and collect pass from parent to child (SpecFK)
  fother,     \* whether another importer loads the same dataset meanwhile
  fref,       \* the reference genome line is a line of the population
              \* once the line file is imported
  fpc,        \* the next step of design / collect
  fnext,      \* the next id a sequence hands out
  fid,        \* ids the run holds: conf['species_id'], population_id, ..
  frows,      \* child rows whose INSERT was issued: [kind, fk]
  \* ---- an import of record files, aborted and run again (SpecImport)
  ifiles,     \* the files of the import, each a list of natural keys
  irun,       \* 1: the first run; 2: the run after an abort
  ipc,        \* "run", "aborted" (the error left run) or "done"
  ifi,        \* index of the file being imported
  iri,        \* index of the next record of that file
  itable,     \* committed rows: [id, key]
  inext,      \* the table's id sequence
  iattempts,  \* records the current run passed to the insert wrapper
  isnap,      \* the committed rows when the first run aborted
  isub,       \* the manifest's species_subspecies
  ispecies,   \* committed rows of species: [id, sub]
  ipops,      \* committed rows of population: [id, species]
  ipop,       \* the population id the current run holds (0: none yet)
  \* ---- the parsing of the command line (SpecOpts)
  oentry,     \* "__main__" or "cli": the module whose parse_options runs
  oargs,      \* --validate as argparse stores it: [given, names]
  opc,        \* "parse" or "parsed"
  ovalidate,  \* args.validate when parse_options is done: [given, names]
  owarned,    \* the names logging.warning was called with
  \* ---- the chromosome names and paths of the phases (SpecPaths)
  pcwd,       \* args.cwd
  pshort,     \* conf['species_shortname']
  pn,         \* conf['number_of_chromosomes']
  ppc,        \* "validate", "design", "collect" or "end"
  pgeno,      \* conf['genotype_filename'] as the validator leaves it
  pvariant,   \* conf['variant_filename'] as the validator leaves it
  pchrs,      \* names of the chromosomes design inserts, in order
  pfound,     \* names collect passes to find_chromosome, in order
  pread,      \* paths collect tests with os.path.isfile, in order
  \* ---- a schema validator called on one file (SpecSchema)
  sval,       \* the validator: "phenotype", "line", "variant", ..
  sheader,    \* name of the file's first column, as a sequence of letters
  sdups,      \* the identity column repeats a value
  scells,     \* number of cells that do not convert to the column's type
  scols,      \* the file has the number of columns the validator expects
  sskip,      \* args.skip_genotype_validation
  spos,       \* the .pos file next to a genotype file exists
  spc,        \* "start", "returned" or "raised"
  serr,       \* the violations schema.validate(df) returned
  sraised,    \* the error raised: [type, carried, path]
  slogged,    \* logging.error lines that hold the path
  \* ---- insert_genotypes_from_file on one matrix and one line file (SpecGeno)
  ymatrix,    \* rows of the genotype matrix, each named by its row number
  ylines,     \* names of the line file, in file order
  yknown,     \* names that are lines of the population
  ynullable,  \* genotype.genotype_line accepts NULL
  ypc,        \* "start", "loop", "done" or "raised"
  yzip,       \* ziplist: pairs [line, row]
  yidx,       \* index of the next pair
  yrows,      \* rows of table genotype: [id, line, row]
  yids,       \* insertedGenotypeIDs
  \* ---- the loader of GWAS runs (SpecRuns)
  rfile,      \* the rows of the results file: trait, nSNPs, nLines
  rhasS,      \* whether the file has an nSNPs column
  rhasL,      \* whether the file has an nLines column
  rnumeric,   \* whether nsnps and nlines of gwas_run can hold NaN
  rnullsame,  \* whether the unique index of gwas_run takes NULLs as equal
  rlist,      \* gwas_run_list, the parsed runs
  ridx,       \* position of the loop in gwas_run_list
  rids,       \* insertedGwasRunIDs
  rtable,     \* the rows of gwas_run
  rnext,      \* next value of the gwas_run_id sequence
  rpc,        \* "parse", "loop", "done" or "raised"
  rret        \* what each finished call returned, and the table it left

dbVars   == <<kind, uniq, nproc, table, nextId, pc, arg, newID, raced, log>>
varVars  == <<vtable, vnextId, vpc, vdata, vidx, vresults, vreport, vbefore,
              vlookups, vloads>>
mainVars == <<entry, sel, dryrun, confSet, skipFlag, present, values, nchr,
              fs, mpc, expanded, locations, lidx, checked, validated, errors,
              phases, inserts>>
gwasVars == <<gtable, gfile, gidx, gresults>>
fkVars   == <<fother, fref, fpc, fnext, fid, frows>>
impVars  == <<ifiles, irun, ipc, ifi, iri, itable, inext, iattempts, isnap,
              isub, ispecies, ipops, ipop>>
optVars  == <<oentry, oargs, opc, ovalidate, owarned>>
pathVars == <<pcwd, pshort, pn, ppc, pgeno, pvariant, pchrs, pfound, pread>>
schemaVars == <<sval, sheader, sdups, scells, scols, sskip, spos, spc, serr, sraised, slogged>>
genoVars == <<ymatrix, ylines, yknown, ynullable, ypc, yzip, yidx, yrows, yids>>
gwasRunVars == <<rfile, rhasS, rhasL, rnumeric, rnullsame, rlist, ridx, rids,
  rtable, rnext, rpc, rret>>
extVars  == <<gwasVars, fkVars, impVars, optVars, pathVars, schemaVars,
  genoVars, gwasRunVars>>
vars     == <<dbVars, varVars, mainVars, extVars>>

----------------------------------------------------------------------------
(* Bounds *)
MaxCalls == 3      \* calls of an insert wrapper in one behaviour
MaxLen == 3        \* tuples in a variant position file
MaxLoads == 2      \* bulk loads in one behaviour
MaxChr == 2        \* number_of_chromosomes
MaxMissing == 3    \* manifest keys left out
MaxRecs == 2       \* records in a file of an import that is run again
MaxNames == 3      \* names given to --validate
MaxPathChr == 3    \* chromosomes of a manifest whose paths are expanded
MaxCells == 2      \* cells of a file that break the rule of their column
MaxRows == 3       \* rows of a genotype matrix, names of a line file
MaxRunRows == 2    \* rows of a GWAS results file

----------------------------------------------------------------------------
(* Values *)
NoneId == 0                  \* Python's None where an id is expected
RaisedId == 0 - 1            \* the call raised instead of returning
NULL == "<null>"             \* SQL NULL / Python None as a key field

Procs == {1, 2}

Range(s) == {s[i] : i \in 1..Len(s)}

----------------------------------------------------------------------------
(* The insert wrappers of util/insert.py *)

Kinds == {"species", "population", "chromosome", "line", "variant",
          "genotype", "growout", "location", "phenotype", "trait",
          "growout_type", "gwas_algorithm", "genotype_version",
          "imputation_method", "kinship_algorithm", "kinship",
          "population_structure_algorithm", "population_structure",
          "gwas_run"}

\* Wrappers that run the identity SELECT before the INSERT.
HasExistsCheck(k) == k \notin {"growout", "location", "growout_type"}

\* insert_genotype subscripts cur.fetchone() without testing it for None.
UnguardedFetch(k) == k = "genotype"

\* insert_phenotype compares LOWER(phenotype_value) with the parameter.
LowerCompare(k) == k = "phenotype"

\* The natural keys a behaviour draws from: <<a, b>>, a the leading fields
\* and b the field whose values matter to the wrapper of that kind.
KeyA == {"k1"}
KeyB(k) ==
  CASE k = "species"   -> {"", "ssp", NULL}     \* subspecies / variety
    [] k = "phenotype" -> {"NaN", "nan", "7"}   \* phenotype_value
    [] OTHER           -> {"x", "y"}
Keys(k) == KeyA \X KeyB(k)

\* SQL's LOWER() on the phenotype values of the model.
NoLower(v) == v
Lower(v) == IF v = "NaN" THEN "nan" ELSE v

\* SQL "=": never true when either side is NULL.
SqlEq(a, b) == a # NULL /\ b # NULL /\ a = b

\* The WHERE clause of the identity SELECT of kind k, on a stored key.
Matches(k, stored, param) ==
  /\ SqlEq(stored[1], param[1])
  /\ IF LowerCompare(k) THEN SqlEq(Lower(stored[2]), param[2])
                        ELSE SqlEq(stored[2], param[2])

\* Two keys collide in a unique index: NULLs are distinct from everything.
Conflicts(k1, k2) == SqlEq(k1[1], k2[1]) /\ SqlEq(k1[2], k2[2])

\* Rows a statement of session p sees under READ COMMITTED.
Visible(p) == {r \in table : r.committed \/ r.by = p}

\* exists_in_database: the ids cur.fetchone() may return (NoneId: no row).
SeesNothing(p, k, param) == {NoneId}
exists_in_database(p, k, param) ==
  LET hit == {r \in Visible(p) : Matches(k, r.key, param)}
  IN  IF hit = {} THEN {NoneId} ELSE {r.id : r \in hit}

Done(p, ret, supp) ==
  log' = Append(log, [proc |-> p, key |-> arg[p], ret |-> ret,
                      suppressed |-> supp, raced |-> raced[p]])

\* A caller calls insert_<kind>(conn, args, obj) with natural key k.
Call(p, k) ==
  /\ p <= nproc
  /\ pc[p] = "idle"
  /\ Len(log) + Cardinality({q \in Procs : pc[q] # "idle"}) < MaxCalls
  /\ arg' = [arg EXCEPT ![p] = k]
  /\ raced' = [raced EXCEPT ![p] = FALSE]
  /\ pc' = [pc EXCEPT ![p] = IF HasExistsCheck(kind) THEN "exists" ELSE "insert"]
  /\ UNCHANGED <<kind, uniq, nproc, table, nextId, newID, log>>

\* known_id = exists_in_database(cur, SQL, args_tuple); return it if not None.
ExistsCheck(p) ==
  /\ pc[p] = "exists"
  /\ \E known \in exists_in_database(p, kind, arg[p]) :
       IF known # NoneId
         THEN /\ Done(p, known, FALSE)
              /\ pc' = [pc EXCEPT ![p] = "idle"]
              /\ UNCHANGED raced
         ELSE /\ pc' = [pc EXCEPT ![p] = "insert"]
              /\ LET others == {q \in Procs \ {p} :
                                  pc[q] = "insert" /\ arg[q] = arg[p]}
                 IN  raced' = [q \in Procs |->
                                 IF (q = p /\ others # {}) \/ q \in others
                                   THEN TRUE ELSE raced[q]]
              /\ UNCHANGED log
  /\ UNCHANGED <<kind, uniq, nproc, table, nextId, arg, newID>>

\* A row of another session, not yet committed, that the INSERT must wait for.
Blocked(p) ==
  uniq /\ \E r \in table : ~r.committed /\ r.by # p /\ Conflicts(r.key, arg[p])

\* cur.execute(INSERT .. ON CONFLICT DO NOTHING RETURNING id); cur.fetchone()
InsertExec(p) ==
  /\ pc[p] = "insert"
  /\ ~Blocked(p)
  /\ IF uniq /\ \E r \in table : Conflicts(r.key, arg[p])
       THEN \* the conflict is suppressed: fetchone() returns None
            /\ Done(p, IF UnguardedFetch(kind) THEN RaisedId ELSE NoneId, TRUE)
            /\ pc' = [pc EXCEPT ![p] = "idle"]
            /\ UNCHANGED <<table, nextId, newID>>
       ELSE /\ table' = table \cup {[id |-> nextId, key |-> arg[p], by |-> p,
                                     committed |-> FALSE]}
            /\ nextId' = nextId + 1
            /\ newID' = [newID EXCEPT ![p] = nextId]
            /\ pc' = [pc EXCEPT ![p] = "commit"]
            /\ UNCHANGED log
  /\ UNCHANGED <<kind, uniq, nproc, arg, raced>>

\* conn.commit(); cur.close(); return newID
Commit(p) ==
  /\ pc[p] = "commit"
  /\ table' = {IF r.by = p THEN [r EXCEPT !.committed = TRUE] ELSE r : r \in table}
  /\ Done(p, newID[p], FALSE)
  /\ pc' = [pc EXCEPT ![p] = "idle"]
  /\ UNCHANGED <<kind, uniq, nproc, nextId, arg, newID, raced>>

DbIdle ==
  /\ kind = "species" /\ nproc = 1
  /\ table = {} /\ nextId = 1
  /\ pc = [p \in Procs |-> "idle"]
  /\ arg = [p \in Procs |-> <<"k1", "x">>]
  /\ newID = [p \in Procs |-> NoneId]
  /\ raced = [p \in Procs |-> FALSE]
  /\ log = <<>>

VarIdle ==
  /\ vtable = {} /\ vnextId = 1 /\ vpc = "idle" /\ vdata = <<>> /\ vidx = 1
  /\ vresults = <<>> /\ vreport = 0 - 1 /\ vbefore = {} /\ vlookups = 0
  /\ vloads = 0

MainIdle ==
  /\ entry = "main" /\ sel = [given |-> FALSE, steps |-> {}]
  /\ dryrun = FALSE /\ confSet = FALSE
  /\ skipFlag = "absent" /\ present = {} /\ values = <<>> /\ nchr = 1
  /\ fs = <<>> /\ mpc = "idle" /\ expanded = FALSE
  /\ locations = <<>> /\ lidx = 1 /\ checked = <<>> /\ validated = <<>>
  /\ errors = <<>> /\ phases = <<>> /\ inserts = <<>>

GwasIdle == gtable = {} /\ gfile = <<>> /\ gidx = 1 /\ gresults = <<>>

FkIdle ==
  /\ fother = FALSE /\ fref = TRUE /\ fpc = "idle" /\ fnext = 1 /\ fid = <<>> /\ frows = <<>>

ImpIdle ==
  /\ ifiles = <<>> /\ irun = 1 /\ ipc = "idle" /\ ifi = 1 /\ iri = 1
  /\ itable = {} /\ inext = 1 /\ iattempts = <<>> /\ isnap = {}
  /\ isub = "" /\ ispecies = {} /\ ipops = {} /\ ipop = 0

OptIdle ==
  /\ oentry = "__main__" /\ oargs = [given |-> FALSE, names |-> <<>>]
  /\ opc = "idle" /\ ovalidate = [given |-> FALSE, names |-> <<>>]
  /\ owarned = <<>>

PathIdle ==
  /\ pcwd = "" /\ pshort = "" /\ pn = 1 /\ ppc = "idle"
  /\ pgeno = <<>> /\ pvariant = <<>> /\ pchrs = <<>> /\ pfound = <<>>
  /\ pread = <<>>

SchemaIdle ==
  /\ sval = "line" /\ sheader = <<>> /\ sdups = FALSE /\ scells = 0
  /\ scols = TRUE /\ sskip = FALSE /\ spos = TRUE /\ spc = "idle"
  /\ serr = <<>> /\ slogged = 0
  /\ sraised = [type |-> "none", carried |-> <<>>, path |-> FALSE]

GenoIdle ==
  /\ ymatrix = 0 /\ ylines = <<>> /\ yknown = {} /\ ynullable = FALSE
  /\ ypc = "idle" /\ yzip = <<>> /\ yidx = 1 /\ yrows = {} /\ yids = <<>>

RunsIdle ==
  /\ rfile = <<>> /\ rhasS = TRUE /\ rhasL = TRUE /\ rnumeric = TRUE
  /\ rnullsame = FALSE
  /\ rlist = <<>> /\ ridx = 1 /\ rids = <<>> /\ rtable = {} /\ rnext = 1
  /\ rpc = "idle" /\ rret = <<>>

ExtIdle ==
  /\ GwasIdle /\ FkIdle /\ ImpIdle /\ OptIdle /\ PathIdle /\ SchemaIdle
  /\ GenoIdle /\ RunsIdle

InitDB ==
  /\ kind \in Kinds /\ uniq \in BOOLEAN /\ nproc \in {1, 2}
  /\ table = {} /\ nextId = 1
  /\ pc = [p \in Procs |-> "idle"]
  /\ arg = [p \in Procs |-> <<"k1", "x">>]
  /\ newID = [p \in Procs |-> NoneId]
  /\ raced = [p \in Procs |-> FALSE]
  /\ log = <<>>
  /\ VarIdle /\ MainIdle /\ ExtIdle

DbCall == (\E p \in Procs : \E k \in Keys(kind) : Call(p, k))
            /\ UNCHANGED <<varVars, mainVars, extVars>>
DbExistsCheck == (\E p \in Procs : ExistsCheck(p)) /\ UNCHANGED <<varVars, mainVars, extVars>>
DbInsertExec == (\E p \in Procs : InsertExec(p)) /\ UNCHANGED <<varVars, mainVars, extVars>>
DbCommit == (\E p \in Procs : Commit(p)) /\ UNCHANGED <<varVars, mainVars, extVars>>

NextDB == DbCall \/ DbExistsCheck \/ DbInsertExec \/ DbCommit

SpecDB == InitDB /\ [][NextDB]_vars

----------------------------------------------------------------------------
(* The asynchronous variant loader: insert_variants_from_file_async,       *)
(* validate_variant_sync and variant_sync_run                              *)

Positions == {400, 500, 600}
SpeciesId == 1        \* speciesID of the load
ChromosomeId == 2     \* chromosomeID of the load

\* Variant rows the table may hold before the first load.
Existing == {[id |-> 1, s |-> 1, c |-> 2, p |-> 400],
             [id |-> 2, s |-> 1, c |-> 2, p |-> 500],
             [id |-> 3, s |-> 2, c |-> 1, p |-> 500]}

VKey(r) == <<r.s, r.c, r.p>>
VKeys(rows) == {VKey(r) : r \in rows}
Distinct(seq) == \A i, j \in 1..Len(seq) : seq[i] = seq[j] => i = j

\* df = list(zip([speciesID] * n, [chromosomeID] * n, [int(d) for d in df]))
Zip(file) == [i \in 1..Len(file) |-> <<SpeciesId, ChromosomeId, file[i]>>]

\* stmt.fetchval(c, s, p): the variant_id of a matching row, NoneId if none.
\* The statement binds $1 to variant_species, $2 to variant_chromosome.
SwappedFetchval(d) ==
  LET hit == {r \in vtable : r.s = d[2] /\ r.c = d[1] /\ r.p = d[3]}
  IN  IF hit = {} THEN {NoneId} ELSE {r.id : r \in hit}
Fetchval(d) ==
  LET hit == {r \in vtable : r.s = d[1] /\ r.c = d[2] /\ r.p = d[3]}
  IN  IF hit = {} THEN {NoneId} ELSE {r.id : r \in hit}

\* "if r is None: results.append(d)"
KeepAll(r) == TRUE
Keep(r) == r = NoneId

\* loop.run_until_complete(validate_variant_sync(..)) has returned: the for
\* loop over data has awaited every lookup.
ValidationStarted == TRUE
ValidationReturned == vidx > Len(vdata)

\* COPY fails as a whole when a record violates the unique key.
CopyFails ==
  uniq /\ (~Distinct(vresults)
           \/ \E i \in 1..Len(vresults) : vresults[i] \in VKeys(vtable))

\* insert_variants_from_file_async is called with a parsed position file.
VStart ==
  /\ vpc \in {"idle", "done"}
  /\ vloads < MaxLoads
  /\ \E n \in 0..MaxLen : \E file \in [1..n -> Positions] :
       vdata' = Zip(file)
  /\ vidx' = 1 /\ vresults' = <<>> /\ vreport' = 0 - 1 /\ vlookups' = 0
  /\ vbefore' = vtable
  /\ vloads' = vloads + 1
  /\ vpc' = "validate"
  /\ UNCHANGED <<vtable, vnextId, dbVars, mainVars, extVars>>

\* One turn of the loop of validate_variant_sync.
VLookup ==
  /\ vpc = "validate"
  /\ vidx <= Len(vdata)
  /\ \E r \in Fetchval(vdata[vidx]) :
       vresults' = IF Keep(r) THEN Append(vresults, vdata[vidx]) ELSE vresults
  /\ vidx' = vidx + 1
  /\ UNCHANGED <<vtable, vnextId, vpc, vdata, vreport, vbefore, vlookups,
                 vloads, dbVars, mainVars, extVars>>

\* variant_sync_run: conn.copy_records_to_table('variant', records=data)
VCopy ==
  /\ vpc = "validate"
  /\ ValidationReturned
  /\ vlookups' = vidx - 1
  /\ IF CopyFails
       THEN /\ vpc' = "failed"
            /\ UNCHANGED <<vtable, vnextId, vreport>>
       ELSE /\ vtable' = vtable \cup
                 {[id |-> vnextId + i - 1, s |-> vresults[i][1],
                   c |-> vresults[i][2], p |-> vresults[i][3]] :
                    i \in 1..Len(vresults)}
            /\ vnextId' = vnextId + Len(vresults)
            /\ vreport' = Len(vresults)
            /\ vpc' = "done"
  /\ UNCHANGED <<vdata, vidx, vresults, vbefore, vloads, dbVars, mainVars, extVars>>

\* The rows of the table when the connection is lost while the COPY of
\* variant_sync_run is under way: the COPY is one statement, the server
\* rolls it back as a whole.
PartOfCopy ==
  IF vresults = <<>> THEN vtable
  ELSE vtable \cup {[id |-> vnextId, s |-> vresults[1][1],
                     c |-> vresults[1][2], p |-> vresults[1][3]]}
AfterLostCopy == vtable

\* asyncpg raises a connection error: in asyncpg.connect or in a lookup of
\* validate_variant_sync, or in asyncpg.connect or the COPY of
\* variant_sync_run. Nothing catches it: the loop of collect over the
\* chromosomes ends and run raises the error again.
VConnError ==
  /\ vpc = "validate"
  /\ IF ValidationReturned
       THEN vtable' = AfterLostCopy
       ELSE UNCHANGED vtable
  /\ vpc' = "lost"
  /\ UNCHANGED <<vnextId, vdata, vidx, vresults, vreport, vbefore, vlookups,
                 vloads, dbVars, mainVars, extVars>>

InitVar ==
  /\ DbIdle /\ MainIdle /\ ExtIdle
  /\ uniq \in BOOLEAN
  /\ vtable \in SUBSET Existing
  /\ vnextId = 4 /\ vpc = "idle" /\ vdata = <<>> /\ vidx = 1
  /\ vresults = <<>> /\ vreport = 0 - 1 /\ vbefore = {} /\ vlookups = 0
  /\ vloads = 0

NextVar == VStart \/ VLookup \/ VCopy \/ VConnError

SpecVar == InitVar /\ [][NextVar]_vars

----------------------------------------------------------------------------
(* The configuration validator: validate_configuration of util/validate.py *)

\* expected_fields: the keys a manifest must hold.
ExpectedFields ==
  <<"species_shortname", "species_binomial_name", "species_subspecies",
    "species_variety", "population_name", "number_of_chromosomes",
    "genotype_version_assembly_name", "genotype_version_annotation_name",
    "reference_genome_line_name", "gwas_algorithm_name",
    "imputation_method_name", "kinship_algortihm_name",
    "population_structure_algorithm_name", "kinship_filename",
    "population_structure_filename", "gwas_run_filename",
    "gwas_results_filename", "missing_SNP_cutoff_value",
    "missing_line_cutoff_value", "minor_allele_frequency_cutoff_value",
    "phenotype_filename">>

\* required_fields: the keys whose value must not be empty.
RequiredFields ==
  SelectSeq(ExpectedFields,
            LAMBDA k : k \notin {"species_subspecies", "species_variety"})

\* validation_options of parse_options.
Steps == {"config", "line", "genotype", "variant", "kinship", "population",
          "phenotype", "runs", "result"}

\* The paths the templates produce; the working directory is left implicit.
GenoPath(c) == <<".012", c>>
VarPath(c) == <<".012.pos", c>>
LinesPath == <<".012.indv", 1>>
KinshipPath == <<"kinship", 0>>
PopStructPath == <<"population_structure", 0>>
PhenoPath == <<"phenotype", 1>>
RunPath == <<"gwas_run", 1>>
ResultsPath == <<"gwas_results", 1>>
\* pipeline.collect prefixes args.cwd to the configuration's filename.
PrefixedKinshipPath == <<"cwd/kinship", 0>>
PrefixedPopStructPath == <<"cwd/population_structure", 0>>
NoPath == <<"", 0>>

SinglePaths == {LinesPath, KinshipPath, PopStructPath, PhenoPath, RunPath,
                ResultsPath}
ChrPaths(n) == {GenoPath(c) : c \in 1..n} \cup {VarPath(c) : c \in 1..n}

Loc(ft, fn) == [filetype |-> ft, filename |-> fn]
When(cond, seq) == IF cond THEN seq ELSE <<>>

\* "for c in range(1, conf['number_of_chromosomes'] + 1)": the descriptors
\* of the per-chromosome files, marked for validation if requested.
RECURSIVE ChrLocations(_, _, _)
ChrLocations(c, n, S) ==
  IF c > n THEN <<>>
  ELSE When("genotype" \in S, <<Loc("genotype", GenoPath(c))>>)
       \o When("variant" \in S, <<Loc("variant", VarPath(c))>>)
       \o ChrLocations(c + 1, n, S)

\* conf['genotype_filename'] and conf['variant_filename'], the lists built by
\* the same loop.
RECURSIVE ChrList(_, _, _)
ChrList(ft, c, n) ==
  IF c > n THEN <<>>
  ELSE <<Loc(ft, IF ft = "genotype_filename" THEN GenoPath(c) ELSE VarPath(c))>>
       \o ChrList(ft, c + 1, n)

\* "for configuration_entry in conf": every entry that is a list adds its
\* filenames under the entry's own name (manifest keys in the order of
\* expected_fields, then the two lists the validator added).
ListLocations(n) ==
  <<Loc("gwas_run_filename", RunPath),
    Loc("gwas_results_filename", ResultsPath),
    Loc("phenotype_filename", PhenoPath)>>
  \o ChrList("genotype_filename", 1, n) \o ChrList("variant_filename", 1, n)

AllLocations(n, S) ==
  ChrLocations(1, n, S)
  \o When("line" \in S, <<Loc("line", LinesPath)>>)
  \o When("kinship" \in S, <<Loc("kinship", KinshipPath)>>)
  \o When("population" \in S, <<Loc("population_structure", PopStructPath)>>)
  \o ListLocations(n)

\* "validation_step in file_location['filetype']": Python's substring test of
\* a step name in a filetype.
StepInFiletype(step, ft) ==
  CASE step = "line"       -> ft = "line"
    [] step = "genotype"   -> ft \in {"genotype", "genotype_filename"}
    [] step = "variant"    -> ft \in {"variant", "variant_filename"}
    [] step = "kinship"    -> ft = "kinship"
    [] step = "population" -> ft = "population_structure"
    [] step = "phenotype"  -> ft = "phenotype_filename"
    [] step = "result"     -> ft = "gwas_results_filename"
    [] OTHER               -> FALSE    \* "config", "runs"

\* "Remove files that will not be validated"
FilterLocations(all, S) ==
  SelectSeq(all, LAMBDA l : \E step \in S : StepInFiletype(step, l.filetype))

\* missing_keys: the expected keys the manifest lacks, in order.
FirstMissingKey(conf) ==
  LET miss == SelectSeq(ExpectedFields, LAMBDA k : k \notin conf)
  IN  IF miss = <<>> THEN <<>> ELSE <<miss[1]>>
MissingKeys(conf) == SelectSeq(ExpectedFields, LAMBDA k : k \notin conf)

\* empty_fields: the required keys whose value is falsy, in order.
\* "if not conf[rf]": Python's truth test of a JSON value, here an empty
\* string, null, an empty list, the numbers 0 and 0.0, or a non-empty value.
ValueKinds == {"value", "empty_string", "null", "empty_list", "zero",
               "zero_float"}
Falsy(v) == v \in {"empty_string", "null", "empty_list", "zero", "zero_float"}
EmptyFields(conf) ==
  SelectSeq(RequiredFields, LAMBDA k : k \in DOMAIN conf /\ Falsy(conf[k]))

Err(type, keys, path) == [type |-> type, keys |-> keys, path |-> path]

\* os.path.isfile
AnyPathExists(path) == TRUE
Exists(path) == path \in DOMAIN fs /\ fs[path] # "missing"

\* validate_genotype: returns at once when args.skip_genotype_validation is
\* True (an args without the attribute raises AttributeError). Otherwise the
\* schema names its columns 'row_number', 'pos_0', .. while the frame read
\* with header=None labels them 0, 1, ..: Schema.validate reports the schema
\* column as absent from the frame, and the error is raised for any content.
AcceptingValidateGenotype(fp) == "ok"
validate_genotype(fp) ==
  CASE skipFlag = "true"   -> "ok"
    [] skipFlag = "absent" -> "AttributeError"
    [] ~Exists(<<".012.pos", fp[2]>>) -> "FileNotFoundError"
    [] OTHER               -> "Exception"

\* The other schema validators raise on a file that breaks their rule.
validate_other(fp) == IF fs[fp] = "bad" THEN "Exception" ELSE "ok"

\* The dispatch of one file descriptor: the validator the if-chain calls,
\* "none" in its else branch ("Calling validation on unknown file").
Validator(l, S) ==
  LET ft == l.filetype
  IN  CASE ft = "line" /\ "line" \in S -> "validate_line"
        [] ft = "variant" /\ "variant" \in S -> "validate_variant"
        [] ft = "genotype" /\ "genotype" \in S -> "validate_genotype"
        [] ft = "kinship" /\ "kinship" \in S -> "validate_kinship"
        [] ft = "population_structure" /\ "population" \in S
             -> "validate_population_structure"
        [] ft = "phenotype_filename" /\ "phenotype" \in S
             -> "validate_phenotype"
        [] ft = "gwas_run_filename" /\ "runs" \in S -> "validate_runs"
        [] ft = "gwas_results_filename" /\ "result" \in S
             -> "validate_results"
        [] OTHER -> "none"

\* The outcome of the call: "ok", the error raised, or "none".
Dispatch(l, S) ==
  LET v == Validator(l, S)
  IN  CASE v = "none" -> "none"
        [] v = "validate_genotype" -> validate_genotype(l.filename)
        [] OTHER -> validate_other(l.filename)

runVars == <<entry, sel, dryrun, confSet, skipFlag, present, values, nchr, fs>>

\* missing_keys ..; if missing_keys: raise KeyError(..)
VcMissingKeys ==
  /\ mpc = "vc_keys"
  /\ LET miss == MissingKeys(present)
     IN  IF miss # <<>>
           THEN /\ errors' = Append(errors, Err("KeyError", miss, NoPath))
                /\ mpc' = "raised"
           ELSE /\ mpc' = "vc_empty"
                /\ UNCHANGED errors
  /\ UNCHANGED <<runVars, expanded, locations, lidx, checked, validated,
                 phases, inserts, dbVars, varVars, extVars>>

\* empty_fields ..; if empty_fields: raise KeyError(..)
VcEmptyFields ==
  /\ mpc = "vc_empty"
  /\ LET empty == EmptyFields(values)
     IN  IF empty # <<>>
           THEN /\ errors' = Append(errors, Err("KeyError", empty, NoPath))
                /\ mpc' = "raised"
           ELSE /\ mpc' = "vc_expand"
                /\ UNCHANGED errors
  /\ UNCHANGED <<runVars, expanded, locations, lidx, checked, validated,
                 phases, inserts, dbVars, varVars, extVars>>

\* The templates are substituted and the descriptors of the files to check
\* are collected and filtered by args.validate.
VcExpand ==
  /\ mpc = "vc_expand"
  /\ expanded' = TRUE
  /\ locations' = FilterLocations(AllLocations(nchr, sel.steps), sel.steps)
  /\ lidx' = 1
  /\ mpc' = "vc_exists"
  /\ UNCHANGED <<runVars, checked, validated, errors, phases, inserts,
                 dbVars, varVars, extVars>>

\* "for location in locations: if not os.path.isfile(..): raise"
VcFileExists ==
  /\ mpc = "vc_exists"
  /\ IF lidx > Len(locations)
       THEN /\ mpc' = "vc_dispatch"
            /\ lidx' = 1
            /\ UNCHANGED <<checked, errors>>
       ELSE /\ checked' = Append(checked, locations[lidx].filename)
            /\ IF Exists(locations[lidx].filename)
                 THEN /\ lidx' = lidx + 1
                      /\ UNCHANGED <<mpc, errors>>
                 ELSE /\ errors' = Append(errors,
                            Err("FileNotFoundError", <<>>, locations[lidx].filename))
                      /\ mpc' = "raised"
                      /\ UNCHANGED lidx
  /\ UNCHANGED <<runVars, expanded, locations, validated, phases, inserts,
                 dbVars, varVars, extVars>>

\* "for file_descriptor in locations": the validator of each file's kind.
VcDispatch ==
  /\ mpc = "vc_dispatch"
  /\ IF lidx > Len(locations)
       THEN /\ mpc' = "vc_ok"
            /\ phases' = Append(phases, "validate.ok")
            /\ UNCHANGED <<lidx, validated, errors>>
       ELSE LET out == Dispatch(locations[lidx], sel.steps)
            IN  /\ validated' =
                     IF out = "none" THEN validated
                     ELSE Append(validated,
                            [validator |-> Validator(locations[lidx], sel.steps),
                             filename |-> locations[lidx].filename])
                /\ IF out \in {"ok", "none"}
                     THEN /\ lidx' = lidx + 1
                          /\ UNCHANGED <<mpc, errors>>
                     ELSE /\ errors' = Append(errors,
                                Err(out, <<>>, locations[lidx].filename))
                          /\ mpc' = "raised"
                          /\ UNCHANGED lidx
                /\ UNCHANGED phases
  /\ UNCHANGED <<runVars, expanded, locations, checked, inserts, dbVars, varVars, extVars>>

NextConf == VcMissingKeys \/ VcEmptyFields \/ VcExpand \/ VcFileExists \/ VcDispatch

\* The manifests and selections the validator is run on.
\* The keys whose value varies: a name and a numeric cutoff; the values of
\* the other keys are non-empty.
EmptyCandidates == {"population_name", "missing_SNP_cutoff_value"}
KindsOf(k) ==
  IF k = "missing_SNP_cutoff_value" THEN ValueKinds
  ELSE ValueKinds \ {"zero", "zero_float"}
Manifests(keys, full) ==
  {c \in [keys -> ValueKinds] :
     \A k \in keys : c[k] \in (IF full THEN KindsOf(k)
                                ELSE {"value", "empty_string"})}
ConfSelections == {{}, {"genotype"}, {"line", "kinship"}}
AllGood(n) == [p \in SinglePaths \cup ChrPaths(n) \cup
                     {PrefixedKinshipPath, PrefixedPopStructPath} |-> "good"]

\* Any selection of the steps that name a kind of file, "config" alone, and
\* all the steps.
AllSelections == SUBSET (Steps \ {"config"}) \cup {{"config"}, Steps}

\* The files of the working directory: all there and well-formed, but for
\* one file, or one of two pairs of files, missing or ill-formed.
BrokenSets(n) ==
  {{}} \cup {{p} : p \in SinglePaths \cup ChrPaths(n)}
       \cup {{LinesPath, KinshipPath}, {GenoPath(1), PhenoPath}}
BrokenFileSystems(n) ==
  {[p \in DOMAIN AllGood(n) |-> IF p \in B THEN st ELSE "good"] :
     B \in BrokenSets(n), st \in {"missing", "bad"}}

\* The calls of validate_configuration: a manifest that lacks keys; a
\* complete manifest whose values vary; a complete manifest with any
\* selection on any of the working directories.
InitConf ==
  /\ DbIdle /\ uniq = TRUE /\ VarIdle /\ ExtIdle
  /\ entry = "main" /\ dryrun = FALSE /\ confSet = FALSE
  /\ \E M \in SUBSET Range(ExpectedFields) :
       /\ Cardinality(M) <= MaxMissing
       /\ present = Range(ExpectedFields) \ M
       /\ \/ /\ M # {}
             /\ values \in Manifests(EmptyCandidates \ M, FALSE)
             /\ \E S \in ConfSelections : sel = [given |-> TRUE, steps |-> S]
             /\ nchr = 1 /\ skipFlag = "false" /\ fs = AllGood(1)
          \/ /\ M = {}
             /\ values \in Manifests(EmptyCandidates, TRUE)
             /\ \E S \in ConfSelections : sel = [given |-> TRUE, steps |-> S]
             /\ nchr = 1 /\ skipFlag = "false" /\ fs = AllGood(1)
          \/ /\ M = {}
             /\ values = [k \in EmptyCandidates |-> "value"]
             /\ \E S \in AllSelections : sel = [given |-> TRUE, steps |-> S]
             /\ nchr \in 1..MaxChr
             /\ skipFlag \in {"true", "false", "absent"}
             /\ fs \in BrokenFileSystems(nchr)
  /\ mpc = "vc_keys"
  /\ expanded = FALSE /\ locations = <<>> /\ lidx = 1
  /\ checked = <<>> /\ validated = <<>> /\ errors = <<>>
  /\ phases = <<>> /\ inserts = <<>>

SpecConf == InitConf /\ [][NextConf]_vars

----------------------------------------------------------------------------
(* The entry points: main of pgwasdbi.py and the block of __main__.py *)

\* One call of an insert wrapper by a phase: the kind of row, the chromosome
\* it belongs to (0 if none) and whether its file breaks the kind's rule.
Ins(k, c, bad) == [kind |-> k, chr |-> c, bad |-> bad]

\* "else: if args.dryrun is not True: run(args)" in main; the block of
\* __main__.py calls run(args) whatever the flag.
RunsWhateverTheFlag == TRUE
RunsAfterValidate == IF entry = "main" THEN dryrun # TRUE ELSE TRUE

Raise(type, path) ==
  /\ errors' = Append(errors, Err(type, <<>>, path))
  /\ mpc' = "raised"

\* "if args.validate is not None: try: validate(args)"
MainStart ==
  /\ mpc = "start"
  /\ IF sel.given
       THEN /\ phases' = Append(phases, "validate.start")
            /\ mpc' = "vc_keys"
       ELSE /\ mpc' = "end"
            /\ UNCHANGED phases
  /\ UNCHANGED <<runVars, expanded, locations, lidx, checked, validated,
                 errors, inserts, dbVars, varVars, extVars>>

\* validate(args) returned: the else branch of the try.
MainAfterValidate ==
  /\ mpc = "vc_ok"
  /\ mpc' = IF RunsAfterValidate THEN "experiment.design" ELSE "end"
  /\ UNCHANGED <<runVars, expanded, locations, lidx, checked, validated,
                 errors, phases, inserts, dbVars, varVars, extVars>>

RECURSIVE ChromosomeInserts(_, _)
ChromosomeInserts(c, n) ==
  IF c > n THEN <<>>
  ELSE <<Ins("chromosome", c, FALSE)>> \o ChromosomeInserts(c + 1, n)

\* experiment.design: "conf = args.conf" fails on an args without the
\* attribute (validate_configuration leaves it unset); a caller that set it is
\* taken to have stored the configuration with the paths expanded.
ExperimentDesign ==
  /\ mpc = "experiment.design"
  /\ phases' = Append(phases, "experiment.design")
  /\ IF ~confSet
       THEN /\ Raise("AttributeError", NoPath)
            /\ UNCHANGED inserts
       ELSE \E reference \in BOOLEAN :
            LET head == <<Ins("species", 0, FALSE), Ins("population", 0, FALSE)>>
                        \o ChromosomeInserts(1, nchr)
                lines == <<Ins("line", 0, fs[LinesPath] = "bad")>>
                gv == <<Ins("genotype_version", 0, FALSE)>>
                traits == <<Ins("trait", 0, fs[PhenoPath] = "bad")>>
            IN  CASE ~Exists(LinesPath) ->
                       /\ inserts' = inserts \o head
                       /\ Raise("FileNotFoundError", LinesPath)
                  [] Exists(LinesPath) /\ ~reference ->
                       /\ inserts' = inserts \o head \o lines
                       /\ Raise("Exception", NoPath)
                  [] Exists(LinesPath) /\ reference /\ ~Exists(PhenoPath) ->
                       /\ inserts' = inserts \o head \o lines \o gv
                       /\ Raise("FileNotFoundError", PhenoPath)
                  [] OTHER ->
                       /\ inserts' = inserts \o head \o lines \o gv \o traits
                       /\ mpc' = "pipeline.design"
                       /\ UNCHANGED errors
  /\ UNCHANGED <<runVars, expanded, locations, lidx, checked, validated,
                 dbVars, varVars, extVars>>

\* pipeline.design: the four algorithms.
PipelineDesign ==
  /\ mpc = "pipeline.design"
  /\ phases' = Append(phases, "pipeline.design")
  /\ inserts' = inserts \o <<Ins("gwas_algorithm", 0, FALSE),
                             Ins("imputation_method", 0, FALSE),
                             Ins("kinship_algorithm", 0, FALSE),
                             Ins("population_structure_algorithm", 0, FALSE)>>
  /\ mpc' = "experiment.collect"
  /\ UNCHANGED <<runVars, expanded, locations, lidx, checked, validated,
                 errors, dbVars, varVars, extVars>>

\* The genotype loop of experiment.collect: a chromosome whose file is
\* missing is skipped with a warning; the others are parsed with int() and
\* inserted line by line.
RECURSIVE GenotypeInserts(_, _)
GenotypeInserts(c, n) ==
  IF c > n THEN <<>>
  ELSE When(Exists(GenoPath(c)), <<Ins("genotype", c, fs[GenoPath(c)] = "bad")>>)
       \o GenotypeInserts(c + 1, n)

\* The variant loop of experiment.collect, one bulk load per file found.
RECURSIVE VariantInserts(_, _)
VariantInserts(c, n) ==
  IF c > n THEN <<>>
  ELSE When(Exists(VarPath(c)), <<Ins("variant", c, fs[VarPath(c)] = "bad")>>)
       \o VariantInserts(c + 1, n)

ExperimentCollect ==
  /\ mpc = "experiment.collect"
  /\ phases' = Append(phases, "experiment.collect")
  /\ IF ~Exists(PhenoPath)
       THEN /\ Raise("FileNotFoundError", PhenoPath)
            /\ UNCHANGED inserts
       ELSE /\ inserts' = inserts \o <<Ins("phenotype", 0, fs[PhenoPath] = "bad")>>
                          \o GenotypeInserts(1, nchr) \o VariantInserts(1, nchr)
            /\ mpc' = "pipeline.collect"
            /\ UNCHANGED errors
  /\ UNCHANGED <<runVars, expanded, locations, lidx, checked, validated,
                 dbVars, varVars, extVars>>

\* pipeline.collect: both files are looked up under args.cwd once more.
PipelineCollect ==
  /\ mpc = "pipeline.collect"
  /\ phases' = Append(phases, "pipeline.collect")
  /\ CASE ~Exists(PrefixedKinshipPath) ->
            /\ Raise("FileNotFoundError", PrefixedKinshipPath)
            /\ UNCHANGED inserts
       [] Exists(PrefixedKinshipPath) /\ ~Exists(PrefixedPopStructPath) ->
            /\ Raise("FileNotFoundError", PrefixedPopStructPath)
            /\ UNCHANGED inserts
       [] OTHER ->
            /\ inserts' = inserts \o <<Ins("kinship", 0, FALSE),
                                       Ins("population_structure", 0, FALSE)>>
            /\ mpc' = "end"
            /\ UNCHANGED errors
  /\ UNCHANGED <<runVars, expanded, locations, lidx, checked, validated,
                 dbVars, varVars, extVars>>

\* The runs: either entry point, any selection of the steps below, any
\* flags; the genotype files, the lines file, the first positions file and
\* the files pipeline.collect looks for are there or not.
MainSelections == SUBSET {"line", "genotype"}
FileSystems(n) ==
  {[p \in SinglePaths \cup ChrPaths(n) \cup
            {PrefixedKinshipPath, PrefixedPopStructPath} |->
      CASE p \in {GenoPath(c) : c \in 1..n} -> g[p[2]]
        [] p = LinesPath -> l
        [] p = VarPath(1) -> v
        [] p \in {PrefixedKinshipPath, PrefixedPopStructPath} -> k
        [] OTHER -> "good"] :
     g \in [1..n -> {"missing", "good", "bad"}],
     l \in {"missing", "good"}, v \in {"missing", "good"},
     k \in {"missing", "good"}}

InitMain ==
  /\ DbIdle /\ uniq = TRUE /\ VarIdle /\ ExtIdle
  /\ entry \in {"main", "__main__"}
  /\ sel \in {[given |-> FALSE, steps |-> {}]}
             \cup {[given |-> TRUE, steps |-> S] : S \in MainSelections}
  /\ dryrun \in BOOLEAN
  /\ IF entry = "main"
       THEN confSet \in BOOLEAN /\ skipFlag \in {"true", "false", "absent"}
       ELSE confSet = FALSE /\ skipFlag = "absent"
  /\ present = Range(ExpectedFields)
  /\ values = [k \in EmptyCandidates |-> "value"]
  /\ nchr \in 1..MaxChr
  /\ fs \in FileSystems(nchr)
  /\ mpc = "start"
  /\ expanded = FALSE /\ locations = <<>> /\ lidx = 1
  /\ checked = <<>> /\ validated = <<>> /\ errors = <<>>
  /\ phases = <<>> /\ inserts = <<>>

NextMain ==
  \/ MainStart
  \/ VcMissingKeys
  \/ VcEmptyFields
  \/ VcExpand
  \/ VcFileExists
  \/ VcDispatch
  \/ MainAfterValidate
  \/ ExperimentDesign
  \/ PipelineDesign
  \/ ExperimentCollect
  \/ PipelineCollect

SpecMain == InitMain /\ [][NextMain]_vars

----------------------------------------------------------------------------
(* The loader of GWAS results: insert_gwas_results_from_file of            *)
(* util/insert.py and find_gwas_run of util/find.py                        *)

\* Rows the gwas_run table may hold. The parameters that the runs of one
\* import share (algorithm, cutoffs, imputation method, genotype version,
\* kinship, population structure) are equal in all of them.
GwasRuns ==
  {[id |-> 1, trait |-> "t1", nsnps |-> "31", nlines |-> "229"],
   [id |-> 2, trait |-> "t1", nsnps |-> "31", nlines |-> "115"],
   [id |-> 3, trait |-> "t1", nsnps |-> "31", nlines |-> NULL],
   [id |-> 4, trait |-> "t1", nsnps |-> NULL, nlines |-> "229"],
   [id |-> 5, trait |-> "t2", nsnps |-> "31", nlines |-> "229"]}

\* Rows of a results file: row['trait'], row['nSNPs'], row['nLines'].
ResultRows == {[trait |-> "t1", nsnps |-> "31", nlines |-> l] :
                 l \in {"229", "115"}}

\* find_gwas_run: "AND (nsnps = %s or nsnps is null) AND (nlines = %s or
\* nlines is null)"; cur.fetchone() of a SELECT without ORDER BY returns any
\* of the matching rows, NoneId if there is none.
find_gwas_run(row) ==
  LET hit == {r \in gtable :
                /\ SqlEq(r.trait, row.trait)
                /\ (SqlEq(r.nsnps, row.nsnps) \/ r.nsnps = NULL)
                /\ (SqlEq(r.nlines, row.nlines) \/ r.nlines = NULL)}
  IN  IF hit = {} THEN {NoneId} ELSE {r.id : r \in hit}

notGwasVars == <<dbVars, varVars, mainVars, fkVars, impVars, optVars,
  pathVars, schemaVars, genoVars, gwasRunVars>>

\* One turn of "for _, row in df.iterrows()": the run is looked up and the
\* result is inserted with gwas_result_gwas_run = gwas_run_ID.
GwasResultRow ==
  /\ gidx <= Len(gfile)
  /\ \E gwas_run_ID \in find_gwas_run(gfile[gidx]) :
       gresults' = Append(gresults, gwas_run_ID)
  /\ gidx' = gidx + 1
  /\ UNCHANGED <<gtable, gfile, notGwasVars>>

InitGwas ==
  /\ GenoIdle /\ RunsIdle
  /\ SchemaIdle
  /\ PathIdle
  /\ DbIdle /\ uniq = TRUE /\ VarIdle /\ MainIdle
  /\ gtable \in SUBSET GwasRuns
  /\ \E n \in 1..MaxLen : gfile \in [1..n -> ResultRows]
  /\ gidx = 1 /\ gresults = <<>>
  /\ FkIdle /\ ImpIdle /\ OptIdle

NextGwas == GwasResultRow

SpecGwas == InitGwas /\ [][NextGwas]_vars

----------------------------------------------------------------------------
(* The ids that design and collect pass from parent rows to child rows     *)

\* What an insert wrapper returns to the phase: the id of the row, or None
\* when another importer's row made the INSERT a suppressed conflict.
InsertReturns == IF fother THEN {fnext, NoneId} ELSE {fnext}

\* The id of a row that the other importer committed.
OtherId == 90

\* find_line / find_chromosome on a row that is in the table: "parent = %s"
\* is never true of a None parent, and then the lookup returns None.
FindReturns(own, parent) ==
  IF parent = NoneId THEN NoneId ELSE IF own = NoneId THEN OtherId ELSE own

Row(k, fk) == [kind |-> k, fk |-> fk]
notFkVars == <<dbVars, varVars, mainVars, gwasVars, impVars, optVars,
  pathVars, schemaVars, genoVars, gwasRunVars>>

\* s = species(..); species_id = insert.insert_species(conn, args, s)
FkSpecies ==
  /\ fpc = "species"
  /\ \E id \in InsertReturns : fid' = [fid EXCEPT !.species = id]
  /\ fnext' = fnext + 1
  /\ fpc' = "population"
  /\ UNCHANGED <<fother, fref, frows, notFkVars>>

\* p = population(population_name, species_id); insert_population
FkPopulation ==
  /\ fpc = "population"
  /\ frows' = Append(frows, Row("population", <<fid.species>>))
  /\ \E id \in InsertReturns : fid' = [fid EXCEPT !.population = id]
  /\ fnext' = fnext + 1
  /\ fpc' = "chromosome"
  /\ UNCHANGED <<fother, fref, notFkVars>>

\* insert_all_chromosomes_for_species(conn, args, chromosome_count, species_id)
FkChromosome ==
  /\ fpc = "chromosome"
  /\ frows' = Append(frows, Row("chromosome", <<fid.species>>))
  /\ \E id \in InsertReturns : fid' = [fid EXCEPT !.chromosome = id]
  /\ fnext' = fnext + 1
  /\ fpc' = "line"
  /\ UNCHANGED <<fother, fref, notFkVars>>

\* insert_lines_from_file(conn, args, working_filepath, population_id)
FkLines ==
  /\ fpc = "line"
  /\ frows' = Append(frows, Row("line", <<fid.population>>))
  /\ \E id \in InsertReturns : fid' = [fid EXCEPT !.line = id]
  /\ fnext' = fnext + 1
  /\ fpc' = "genotype_version"
  /\ UNCHANGED <<fother, fref, notFkVars>>

\* reference_genome_id = find.find_line(conn, args,
\* reference_genome_line_name, population_id)
reference_genome_id ==
  IF fref THEN FindReturns(fid.line, fid.population) ELSE NoneId

\* if reference_genome_id is None: raise Exception(..)
NeverMissing(reference) == FALSE
ReferenceMissing(reference) == reference = NoneId

\* reference_genome_id = find_line(..); raise if None; insert the genotype
\* version; raise if its id is None.
FkGenotypeVersion ==
  /\ fpc = "genotype_version"
  /\ LET reference == reference_genome_id
     IN  IF ReferenceMissing(reference)
           THEN /\ fpc' = "raised"
                /\ UNCHANGED <<fid, frows, fnext>>
           ELSE /\ frows' = Append(frows, Row("genotype_version",
                                              <<reference, fid.population>>))
                /\ fnext' = fnext + 1
                /\ \E id \in InsertReturns :
                     /\ fid' = [fid EXCEPT !.genotype_version = id]
                     /\ fpc' = IF id = NoneId THEN "raised" ELSE "algorithms"
  /\ UNCHANGED <<fother, fref, notFkVars>>

\* pipeline.design: the ids of the kinship and the population structure
\* algorithm are stored in conf.
FkAlgorithms ==
  /\ fpc = "algorithms"
  /\ \E ka \in InsertReturns : \E psa \in InsertReturns :
       fid' = [fid EXCEPT !.kinship_algorithm = ka,
                          !.population_structure_algorithm = psa]
  /\ fnext' = fnext + 1
  /\ fpc' = "phenotype"
  /\ UNCHANGED <<fother, fref, frows, notFkVars>>

\* insert_phenotypes_from_file: find_trait (a trait of the file, which
\* design inserted; its id is written fnext), find_line, insert_line for a
\* line that the lines file did not list, insert_phenotype.
FkPhenotype ==
  /\ fpc = "phenotype"
  /\ \E listed \in BOOLEAN :
       LET found == IF listed THEN FindReturns(fid.line, fid.population)
                    ELSE NoneId
       IN  IF found # NoneId
             THEN /\ frows' = Append(frows, Row("phenotype", <<found, fnext>>))
             ELSE \E line_id \in InsertReturns :
                    frows' = frows \o <<Row("line", <<fid.population>>),
                                        Row("phenotype", <<line_id, fnext>>)>>
  /\ fnext' = fnext + 1
  /\ fpc' = "genotype"
  /\ UNCHANGED <<fother, fref, fid, notFkVars>>

\* The genotype loop: find_chromosome, convert_linelist_to_lineIDlist,
\* insert_genotype.
FkGenotype ==
  /\ fpc = "genotype"
  /\ frows' = Append(frows,
         Row("genotype", <<FindReturns(fid.line, fid.population),
                           FindReturns(fid.chromosome, fid.species),
                           fid.genotype_version>>))
  /\ fpc' = "variant"
  /\ UNCHANGED <<fother, fref, fid, fnext, notFkVars>>

\* The variant loop: find_chromosome, insert_variants_from_file_async.
FkVariant ==
  /\ fpc = "variant"
  /\ frows' = Append(frows,
         Row("variant", <<fid.species,
                          FindReturns(fid.chromosome, fid.species)>>))
  /\ fpc' = "kinship"
  /\ UNCHANGED <<fother, fref, fid, fnext, notFkVars>>

\* pipeline.collect: insert_kinship, insert_population_structure.
FkKinship ==
  /\ fpc = "kinship"
  /\ frows' = frows \o
         <<Row("kinship", <<fid.kinship_algorithm>>),
           Row("population_structure", <<fid.population_structure_algorithm>>)>>
  /\ fpc' = "end"
  /\ UNCHANGED <<fother, fref, fid, fnext, notFkVars>>

InitFK ==
  /\ GenoIdle /\ RunsIdle
  /\ SchemaIdle
  /\ PathIdle
  /\ DbIdle /\ uniq = TRUE /\ VarIdle /\ MainIdle /\ GwasIdle /\ ImpIdle
  /\ OptIdle
  /\ fother \in BOOLEAN /\ fref \in BOOLEAN
  /\ fpc = "species" /\ fnext = 1 /\ frows = <<>>
  /\ fid = [species |-> NoneId, population |-> NoneId, chromosome |-> NoneId,
            line |-> NoneId, genotype_version |-> NoneId,
            kinship_algorithm |-> NoneId,
            population_structure_algorithm |-> NoneId]

NextFK ==
  \/ FkSpecies
  \/ FkPopulation
  \/ FkChromosome
  \/ FkLines
  \/ FkGenotypeVersion
  \/ FkAlgorithms
  \/ FkPhenotype
  \/ FkGenotype
  \/ FkVariant
  \/ FkKinship

SpecFK == InitFK /\ [][NextFK]_vars

----------------------------------------------------------------------------
(* An import of record files through a find-or-create wrapper, aborted by  *)
(* a database error and run again: insert_lines_from_file, insert_line     *)

ImportKeys == {"a", "b", "c"}
RecordFiles == UNION {[1..n -> ImportKeys] : n \in 1..MaxRecs}

\* known_id = exists_in_database(cur, SQL, args_tuple): the wrapper returns
\* at once when a row with the key is found.
ImportFinds(key) == \E r \in itable : r.key = key /\ r.pop = ipop

\* insert_species: "WHERE .. subspecies = %s" finds the species rows; the
\* insert that follows a miss adds a row with the next id.
SpeciesFound == {r \in ispecies : SqlEq(r.sub, isub)}
SpeciesAfter ==
  IF SpeciesFound # {} THEN ispecies
  ELSE ispecies \cup {[id |-> Cardinality(ispecies) + 1, sub |-> isub]}
species_id ==
  IF SpeciesFound # {} THEN (CHOOSE r \in SpeciesFound : TRUE).id
  ELSE Cardinality(ispecies) + 1

\* insert_population: found or created under the species id.
PopulationFound == {r \in ipops : r.species = species_id}
population_id ==
  IF PopulationFound # {} THEN (CHOOSE r \in PopulationFound : TRUE).id
  ELSE Cardinality(ipops) + 1

\* "for linename in linelist: .. insert_line(conn, args, lineobj)": neither
\* the loop, nor design and collect, catch the error of a wrapper; run
\* logs it and raises it again.
Swallowed == FALSE
Propagates == TRUE

notImpVars == <<dbVars, varVars, mainVars, gwasVars, fkVars, optVars,
  pathVars, schemaVars, genoVars, gwasRunVars>>

\* The loops move on to the next record, the next file, or the end.
Advance ==
  IF iri < Len(ifiles[ifi])
    THEN /\ iri' = iri + 1
         /\ UNCHANGED <<ifi, ipc>>
    ELSE IF ifi < Len(ifiles)
      THEN /\ ifi' = ifi + 1 /\ iri' = 1
           /\ UNCHANGED ipc
      ELSE /\ ipc' = "done"
           /\ UNCHANGED <<ifi, iri>>

\* design: the species and the population of the manifest are found or
\* created and committed, then the lines file is imported.
ImportDesign ==
  /\ ipc = "design"
  /\ ispecies' = SpeciesAfter
  /\ ipops' = ipops \cup {[id |-> population_id, species |-> species_id]}
  /\ ipop' = population_id
  /\ ipc' = "run"
  /\ UNCHANGED <<ifiles, irun, ifi, iri, itable, inext, iattempts, isnap,
                 isub, notImpVars>>

\* The wrapper finds the record's row, or inserts and commits it.
ImportRecord ==
  /\ ipc = "run"
  /\ iattempts' = Append(iattempts, <<ifi, iri>>)
  /\ IF ImportFinds(ifiles[ifi][iri])
       THEN UNCHANGED <<itable, inext>>
       ELSE /\ itable' = itable \cup {[id |-> inext, key |-> ifiles[ifi][iri],
                                      pop |-> ipop]}
            /\ inext' = inext + 1
  /\ Advance
  /\ UNCHANGED <<ifiles, irun, isnap, isub, ispecies, ipops, ipop, notImpVars>>

\* cur.execute raises a database error on the record (the statement may
\* have drawn an id from the sequence): nothing of the record is committed.
ImportError ==
  /\ ipc = "run" /\ irun = 1
  /\ iattempts' = Append(iattempts, <<ifi, iri>>)
  /\ inext' \in {inext, inext + 1}
  /\ IF Propagates
       THEN /\ ipc' = "aborted"
            /\ isnap' = itable
            /\ UNCHANGED <<ifi, iri>>
       ELSE /\ Advance
            /\ UNCHANGED isnap
  /\ UNCHANGED <<ifiles, irun, itable, isub, ispecies, ipops, ipop, notImpVars>>

\* The operator runs the import again on the same inputs.
ImportAgain ==
  /\ ipc = "aborted"
  /\ irun' = 2 /\ ipc' = "design" /\ ifi' = 1 /\ iri' = 1
  /\ iattempts' = <<>> /\ ipop' = 0
  /\ UNCHANGED <<ifiles, itable, inext, isnap, isub, ispecies, ipops,
                 notImpVars>>

InitImport ==
  /\ GenoIdle /\ RunsIdle
  /\ SchemaIdle
  /\ PathIdle
  /\ DbIdle /\ uniq = TRUE /\ VarIdle /\ MainIdle /\ GwasIdle /\ FkIdle
  /\ OptIdle
  /\ \E n \in 1..2 : ifiles \in [1..n -> RecordFiles]
  /\ isub \in {"ssp", NULL}
  /\ irun = 1 /\ ipc = "design" /\ ifi = 1 /\ iri = 1
  /\ itable = {} /\ inext = 1 /\ iattempts = <<>> /\ isnap = {}
  /\ ispecies = {} /\ ipops = {} /\ ipop = 0

NextImport == ImportDesign \/ ImportRecord \/ ImportError \/ ImportAgain

SpecImport == InitImport /\ [][NextImport]_vars

----------------------------------------------------------------------------
(* The parsing of --validate: parse_options of __main__.py and of cli.py   *)

\* validation_options = ['config', 'line', 'genotype', ...]
validation_options ==
  <<"config", "line", "genotype", "variant", "kinship", "population",
    "phenotype", "runs", "result">>

\* Names a user may give: 'all', 'standard' (which the help of cli.py
\* offers), names of steps, and a name that is no step.
GivenNames == {"all", "standard", "line", "runs", "bogus"}

Known(v) == v \in Range(validation_options)

\* [v for v in args.validate if v in validation_options]
KnownOnly(names) == SelectSeq(names, Known)

\* if 'all' in args.validate: args.validate = validation_options
ExpandAll(names) ==
  IF "all" \in Range(names) THEN validation_options ELSE names

\* for v in args.validate: .. logging.warning(..) for the unknown ones; the
\* loop runs on the list as replaced by the 'all' test.
Unknown(v) == ~Known(v)
Warned(names) == SelectSeq(ExpandAll(names), Unknown)

notOptVars == <<dbVars, varVars, mainVars, gwasVars, fkVars, impVars,
  pathVars, schemaVars, genoVars, gwasRunVars>>

\* parse_options of __main__.py.
ParseOptionsMain ==
  /\ opc = "parse" /\ oentry = "__main__"
  /\ IF oargs.given
       THEN /\ ovalidate' = [given |-> TRUE,
                             names |-> KnownOnly(ExpandAll(oargs.names))]
            /\ owarned' = Warned(oargs.names)
       ELSE /\ ovalidate' = oargs
            /\ UNCHANGED owarned
  /\ opc' = "parsed"
  /\ UNCHANGED <<oentry, oargs, notOptVars>>

\* parse_options of cli.py: the block that rewrites args.validate is
\* commented out, opts.validate stays what argparse stored.
ParseOptionsCli ==
  /\ opc = "parse" /\ oentry = "cli"
  /\ ovalidate' = oargs
  /\ opc' = "parsed"
  /\ UNCHANGED <<oentry, oargs, owarned, notOptVars>>

\* nargs="+": a given --validate holds at least one name.
InitOpts ==
  /\ GenoIdle /\ RunsIdle
  /\ SchemaIdle
  /\ PathIdle
  /\ DbIdle /\ uniq = TRUE /\ VarIdle /\ MainIdle
  /\ GwasIdle /\ FkIdle /\ ImpIdle
  /\ oentry \in {"__main__", "cli"}
  /\ oargs \in {[given |-> FALSE, names |-> <<>>]} \cup
       {[given |-> TRUE, names |-> ns] :
          ns \in UNION {[1..n -> GivenNames] : n \in 1..MaxNames}}
  /\ opc = "parse"
  /\ ovalidate = [given |-> FALSE, names |-> <<>>]
  /\ owarned = <<>>

NextOpts == ParseOptionsMain \/ ParseOptionsCli

SpecOpts == InitOpts /\ [][NextOpts]_vars

----------------------------------------------------------------------------
(* The chromosome names and the per-chromosome paths: the expansion of     *)
(* validate_configuration, generate_chromosome_list, experiment.collect    *)

\* Template('${cwd}/${chr}_${shortname}.012').substitute(..) of validate.py
\* with chr_shortname = 'chr' + str(c).
chr_shortname(c) == "chr" \o ToString(c)
genotype_filepath(c) ==
  pcwd \o "/" \o chr_shortname(c) \o "_" \o pshort \o ".012"
variants_filepath(c) ==
  pcwd \o "/" \o chr_shortname(c) \o "_" \o pshort \o ".012.pos"

\* generate_chromosome_list: chrname = 'chr' + str(count), count from 1.
chrname_from_zero(count) == "chr" \o ToString(count - 1)
chrname(count) == "chr" \o ToString(count)
generate_chromosome_list(numChromosomes) ==
  [count \in 1..numChromosomes |-> chrname(count)]

\* collect: chromosome_shortname = 'chr' + str(c) and the two templates.
chromosome_shortname(c) == "chr" \o ToString(c)
geno_filename(c) ==
  pcwd \o "/" \o chromosome_shortname(c) \o "_" \o pshort \o ".012"
variant_filename(c) ==
  pcwd \o "/" \o chromosome_shortname(c) \o "_" \o pshort \o ".012.pos"

notPathVars == <<dbVars, varVars, mainVars, gwasVars, fkVars, impVars,
  optVars, schemaVars, genoVars, gwasRunVars>>

\* "for c in range(1, conf['number_of_chromosomes'] + 1)" of the validator:
\* both lists get one path per chromosome, whatever steps are selected.
PathsValidate ==
  /\ ppc = "validate"
  /\ pgeno' = [c \in 1..pn |-> genotype_filepath(c)]
  /\ pvariant' = [c \in 1..pn |-> variants_filepath(c)]
  /\ ppc' = "design"
  /\ UNCHANGED <<pcwd, pshort, pn, pchrs, pfound, pread, notPathVars>>

\* design: insert_all_chromosomes_for_species(conn, args, chromosome_count,
\* species_id) inserts a chromosome per name of the list.
PathsDesign ==
  /\ ppc = "design"
  /\ pchrs' = generate_chromosome_list(pn)
  /\ ppc' = "collect"
  /\ UNCHANGED <<pcwd, pshort, pn, pgeno, pvariant, pfound, pread,
                 notPathVars>>

\* collect: the genotype loop, then the variant loop, each looking the
\* chromosome up by name and testing its file.
PathsCollect ==
  /\ ppc = "collect"
  /\ pfound' = [c \in 1..pn |-> chromosome_shortname(c)]
                 \o [c \in 1..pn |-> chromosome_shortname(c)]
  /\ pread' = [c \in 1..pn |-> geno_filename(c)]
                \o [c \in 1..pn |-> variant_filename(c)]
  /\ ppc' = "end"
  /\ UNCHANGED <<pcwd, pshort, pn, pgeno, pvariant, pchrs, notPathVars>>

InitPaths ==
  /\ GenoIdle /\ RunsIdle
  /\ SchemaIdle
  /\ DbIdle /\ uniq = TRUE /\ VarIdle /\ MainIdle
  /\ GwasIdle /\ FkIdle /\ ImpIdle /\ OptIdle
  /\ pcwd \in {"/data", "/home/u/run 1", "/srv/gwas", "/"}
  /\ pshort \in {"maize", "sb", "Zm_B73"}
  /\ pn \in 1..MaxPathChr
  /\ ppc = "validate"
  /\ pgeno = <<>> /\ pvariant = <<>> /\ pchrs = <<>> /\ pfound = <<>>
  /\ pread = <<>>

NextPaths == PathsValidate \/ PathsDesign \/ PathsCollect

SpecPaths == InitPaths /\ [][NextPaths]_vars

----------------------------------------------------------------------------
(* The schema validators of util/validate.py, each called on one file      *)

SchemaValidators == {"phenotype", "line", "variant", "genotype", "kinship",
                     "population_structure", "runs", "results"}

\* Names of a first column, letter by letter.
Headers ==
  {<<"l", "i", "n", "e">>, <<"T", "A", "X", "A">>,
   <<"P", "e", "d", "i", "g", "r", "e", "e">>,
   <<"p", "e", "d", "i", "g", "r", "e", "e">>,
   <<"l", "i", "n", "e", "s">>, <<"i", "d">>}

\* acceptable_fields = ['genotype', 'pedigree', 'line', 'taxa']
acceptable_fields ==
  {<<"g", "e", "n", "o", "t", "y", "p", "e">>,
   <<"p", "e", "d", "i", "g", "r", "e", "e">>,
   <<"l", "i", "n", "e">>, <<"t", "a", "x", "a">>}

\* re.IGNORECASE, on the letters of the headers above.
LowerLetter(c) ==
  CASE c = "P" -> "p" [] c = "T" -> "t" [] c = "A" -> "a" [] c = "X" -> "x"
    [] OTHER -> c
LowerName(h) == [i \in 1..Len(h) |-> LowerLetter(h[i])]

\* re.match(field_pattern, df.columns[0], re.IGNORECASE): the pattern is
\* matched at the start of the name, and nothing anchors its end.
WholeNameMatch(h) == LowerName(h) \in acceptable_fields
ReMatch(h) ==
  \E af \in acceptable_fields :
    Len(h) >= Len(af) /\ LowerName(SubSeq(h, 1, Len(af))) = af

\* Column('Pedigree', ..) of validate_population_structure: the schema looks
\* its column up in the frame by this name.
Pedigree == <<"P", "e", "d", "i", "g", "r", "e", "e">>

Violation(type, n) == [type |-> type, n |-> n]
Distinctness == IF sdups THEN <<Violation("distinct", 1)>> ELSE <<>>
Conversions == [i \in 1..scells |-> Violation("convert", i)]
ColumnAbsent == <<Violation("column", 0)>>

\* err = schema.validate(df): IsDistinctValidation on the identity column of
\* line, variant, kinship and population structure files (commented out for
\* phenotype files), CanConvertValidation on the cells; a schema column that
\* the frame does not hold is reported alone.
SchemaValidate(v) ==
  CASE v = "phenotype" -> Conversions
    [] v = "line" -> Distinctness
    [] v = "variant" -> Conversions \o Distinctness
    [] v = "genotype" -> ColumnAbsent
    [] v = "kinship" -> Distinctness \o Conversions
    [] v = "population_structure" ->
         IF sheader # Pedigree THEN ColumnAbsent
         ELSE Distinctness \o Conversions
    [] OTHER -> Conversions

\* What the raised Exception carries of the violations found.
Carried(err) == <<err[1]>>

notSchemaVars == <<dbVars, varVars, mainVars, gwasVars, fkVars, impVars,
  optVars, pathVars, genoVars, gwasRunVars>>
schemaInput == <<sval, sheader, sdups, scells, scols, sskip, spos>>

Returns ==
  /\ spc' = "returned"
  /\ UNCHANGED <<serr, sraised, slogged>>

\* raise Exception(message): an error of the validator's own.
RaiseOwn(type, withPath) ==
  /\ spc' = "raised"
  /\ sraised' = [type |-> type, carried |-> <<>>, path |-> withPath]
  /\ UNCHANGED <<serr, slogged>>

\* "err = schema.validate(df); if err: for e in err: logging.error(f'..
\* {filepath}'); raise Exception(e)": the first turn of the loop raises.
CheckSchema ==
  /\ serr' = SchemaValidate(sval)
  /\ IF SchemaValidate(sval) = <<>>
       THEN /\ spc' = "returned"
            /\ UNCHANGED <<sraised, slogged>>
       ELSE /\ slogged' = slogged + 1
            /\ sraised' = [type |-> "Exception",
                           carried |-> Carried(SchemaValidate(sval)),
                           path |-> FALSE]
            /\ spc' = "raised"

ValidatePhenotype ==
  /\ spc = "start" /\ sval = "phenotype"
  /\ IF ~ReMatch(sheader) THEN RaiseOwn("Exception", TRUE) ELSE CheckSchema
  /\ UNCHANGED <<schemaInput, notSchemaVars>>

ValidateLine ==
  /\ spc = "start" /\ sval = "line"
  /\ IF ~scols THEN RaiseOwn("Exception", FALSE) ELSE CheckSchema
  /\ UNCHANGED <<schemaInput, notSchemaVars>>

ValidateVariant ==
  /\ spc = "start" /\ sval = "variant"
  /\ IF ~scols THEN RaiseOwn("Exception", TRUE) ELSE CheckSchema
  /\ UNCHANGED <<schemaInput, notSchemaVars>>

ValidateGenotype ==
  /\ spc = "start" /\ sval = "genotype"
  /\ CASE sskip -> Returns
       [] ~sskip /\ ~spos -> RaiseOwn("FileNotFoundError", TRUE)
       [] OTHER -> CheckSchema
  /\ UNCHANGED <<schemaInput, notSchemaVars>>

ValidateKinship ==
  /\ spc = "start" /\ sval = "kinship"
  /\ CheckSchema
  /\ UNCHANGED <<schemaInput, notSchemaVars>>

ValidatePopulationStructure ==
  /\ spc = "start" /\ sval = "population_structure"
  /\ CheckSchema
  /\ UNCHANGED <<schemaInput, notSchemaVars>>

ValidateRuns ==
  /\ spc = "start" /\ sval = "runs"
  /\ CheckSchema
  /\ UNCHANGED <<schemaInput, notSchemaVars>>

ValidateResults ==
  /\ spc = "start" /\ sval = "results"
  /\ CheckSchema
  /\ UNCHANGED <<schemaInput, notSchemaVars>>

InitSchema ==
  /\ GenoIdle /\ RunsIdle
  /\ DbIdle /\ uniq = TRUE /\ VarIdle /\ MainIdle
  /\ GwasIdle /\ FkIdle /\ ImpIdle /\ OptIdle /\ PathIdle
  /\ sval \in SchemaValidators
  /\ sheader \in Headers
  /\ sdups \in BOOLEAN
  /\ scells \in 0..MaxCells
  /\ scols \in (IF sval \in {"line", "variant"} THEN BOOLEAN ELSE {TRUE})
  /\ sskip \in (IF sval = "genotype" THEN BOOLEAN ELSE {FALSE})
  /\ spos \in (IF sval = "genotype" THEN BOOLEAN ELSE {TRUE})
  /\ spc = "start"
  /\ serr = <<>> /\ slogged = 0
  /\ sraised = [type |-> "none", carried |-> <<>>, path |-> FALSE]

NextSchema ==
  \/ ValidatePhenotype
  \/ ValidateLine
  \/ ValidateVariant
  \/ ValidateGenotype
  \/ ValidateKinship
  \/ ValidatePopulationStructure
  \/ ValidateRuns
  \/ ValidateResults

SpecSchema == InitSchema /\ [][NextSchema]_vars

----------------------------------------------------------------------------
(* insert_genotypes_from_file: the matrix of one chromosome and the line   *)
(* file, paired by zip                                                     *)

LineNames == {"a", "b", "c"}

\* The line_id of a line of the population.
LineId(name) == CASE name = "a" -> 11 [] name = "b" -> 12 [] OTHER -> 13

\* Line files as validate_line accepts them: no name twice.
LineFiles ==
  UNION {{f \in [1..n -> LineNames] :
            \A i, j \in 1..n : f[i] = f[j] => i = j} : n \in 0..MaxRows}

\* find.find_line(conn, args, linename, populationID): None when no row.
find_line(name) == IF name \in yknown THEN LineId(name) ELSE NoneId

\* convert_linelist_to_lineIDlist: one lookup per name, None kept in place.
convert_linelist_to_lineIDlist(linelist) ==
  [i \in 1..Len(linelist) |-> find_line(linelist[i])]

\* zip(lineIDlist, genotypes) stops at the end of the shorter list.
Shorter(n, m) == IF n < m THEN n ELSE m
Zipped(lineIDlist, m) ==
  [i \in 1..Shorter(Len(lineIDlist), m) |-> [line |-> lineIDlist[i], row |-> i]]

\* The identity query of insert_genotype: "genotype_line = %s" is never
\* true of a None line.
GenotypeFound(l) == {r \in yrows : l # NoneId /\ r.line = l}

notGenoVars == <<dbVars, varVars, mainVars, gwasVars, fkVars, impVars,
  optVars, pathVars, schemaVars, gwasRunVars>>
genoInput == <<ymatrix, ylines, yknown, ynullable>>

\* genotypes = ..; linelist = ..; lineIDlist = ..; ziplist = list(zipped)
GenoStart ==
  /\ ypc = "start"
  /\ yzip' = Zipped(convert_linelist_to_lineIDlist(ylines), ymatrix)
  /\ ypc' = "loop"
  /\ UNCHANGED <<genoInput, yidx, yrows, yids, notGenoVars>>

\* One turn of "for zippedpair in ziplist": insert_genotype finds the row
\* of the line or inserts one; a None line is refused by a NOT NULL column
\* and stored by a nullable one.
GenoInsert ==
  /\ ypc = "loop" /\ yidx <= Len(yzip)
  /\ LET pair == yzip[yidx]
         found == GenotypeFound(pair.line)
     IN  CASE found # {} ->
                /\ yids' = Append(yids, (CHOOSE r \in found : TRUE).id)
                /\ yidx' = yidx + 1
                /\ UNCHANGED <<yrows, ypc>>
           [] found = {} /\ pair.line = NoneId /\ ~ynullable ->
                /\ ypc' = "raised"
                /\ UNCHANGED <<yrows, yids, yidx>>
           [] OTHER ->
                /\ yrows' = yrows \cup {[id |-> Cardinality(yrows) + 1,
                                         line |-> pair.line, row |-> pair.row]}
                /\ yids' = Append(yids, Cardinality(yrows) + 1)
                /\ yidx' = yidx + 1
                /\ UNCHANGED ypc
  /\ UNCHANGED <<genoInput, yzip, notGenoVars>>

\* return insertedGenotypeIDs
GenoReturn ==
  /\ ypc = "loop" /\ yidx > Len(yzip)
  /\ ypc' = "done"
  /\ UNCHANGED <<genoInput, yzip, yidx, yrows, yids, notGenoVars>>

InitGeno ==
  /\ RunsIdle
  /\ DbIdle /\ uniq = TRUE /\ VarIdle /\ MainIdle
  /\ GwasIdle /\ FkIdle /\ ImpIdle /\ OptIdle /\ PathIdle /\ SchemaIdle
  /\ ymatrix \in 1..MaxRows
  /\ ylines \in LineFiles
  /\ yknown \in SUBSET LineNames
  /\ ynullable \in BOOLEAN
  /\ ypc = "start" /\ yzip = <<>> /\ yidx = 1 /\ yrows = {} /\ yids = <<>>

NextGeno == GenoStart \/ GenoInsert \/ GenoReturn

SpecGeno == InitGeno /\ [][NextGeno]_vars

----------------------------------------------------------------------------
(* The loader of GWAS runs: insert_gwas_runs_from_gwas_results_file and    *)
(* insert_gwas_run of util/insert.py, and                                  *)
(* parse_unique_runs_from_gwas_results_file of util/parsinghelpers.py      *)

\* pd.read_csv gives NaN for an empty cell of a numeric column
NaN == 0 - 2

RunTraits == {"t1", "t2"}
\* find.find_trait: the traits of the file were imported with the
\* phenotypes
find_trait(t) == IF t = "t1" THEN 1 ELSE 2

\* The cells of one row of the results file
RunCells == [trait : RunTraits, nSNPs : {31, NaN}, nLines : {115, NaN}]
RunFiles ==
  UNION {[1..n -> RunCells] : n \in 0..MaxRunRows}

\* gwas_run = dict.fromkeys(keys_of_interest); for k in keys_of_interest:
\* if k in df.columns: gwas_run[k] = row[k]
RunOfRow(row) ==
  [trait  |-> row.trait,
   nSNPs  |-> IF rhasS THEN row.nSNPs ELSE NoneId,
   nLines |-> IF rhasL THEN row.nLines ELSE NoneId]

\* == of two values taken from different rows: None is None, a number
\* equals itself, and the NaN objects of two rows are unequal
PyEq(a, b) == a = b /\ a # NaN
DictEq(d, e) ==
  /\ d.trait = e.trait
  /\ PyEq(d.nSNPs, e.nSNPs)
  /\ PyEq(d.nLines, e.nLines)

\* if gwas_run not in gwas_runs: gwas_runs.append(gwas_run)
RECURSIVE UniqueRuns(_, _)
UniqueRuns(rows, gwas_runs) ==
  IF rows = <<>> THEN gwas_runs
  ELSE LET gwas_run == RunOfRow(Head(rows))
       IN  UniqueRuns(Tail(rows),
             IF \E i \in 1..Len(gwas_runs) : DictEq(gwas_run, gwas_runs[i])
               THEN gwas_runs
               ELSE Append(gwas_runs, gwas_run))

parse_unique_runs_from_gwas_results_file(file) == UniqueRuns(file, <<>>)

\* "column = %s" of the existence check: never true of a NULL on either
\* side; PostgreSQL takes NaN as equal to NaN
RunSqlEq(a, b) == a # NoneId /\ b # NoneId /\ a = b

\* The SELECT of insert_gwas_run; the eight run parameters are those of
\* the call and the same in every row
RunFound(t, s, l) ==
  {r \in rtable : /\ RunSqlEq(r.trait, t)
                  /\ RunSqlEq(r.nsnps, s)
                  /\ RunSqlEq(r.nlines, l)}

\* ON CONFLICT DO NOTHING: the row is dropped when the unique index holds
\* its like; NULLs are unlike each other unless the index says otherwise
RunConflict(t, s, l) ==
  {r \in rtable : r.trait = t /\ r.nsnps = s /\ r.nlines = l /\ rnullsame}

\* An integer column refuses NaN
Refused(s, l) == ~rnumeric /\ (s = NaN \/ l = NaN)

notRunVars == <<dbVars, varVars, mainVars, gwasVars, fkVars, impVars,
  optVars, pathVars, schemaVars, genoVars>>
runInput == <<rfile, rhasS, rhasL, rnumeric, rnullsame>>

\* gwas_run_list = ph.parse_unique_runs_from_gwas_results_file(..);
\* insertedGwasRunIDs = []
RunsParse ==
  /\ rpc = "parse"
  /\ rlist' = parse_unique_runs_from_gwas_results_file(rfile)
  /\ ridx' = 1
  /\ rids' = <<>>
  /\ rpc' = "loop"
  /\ UNCHANGED <<runInput, rtable, rnext, rret, notRunVars>>

\* One turn of "for gwas_run_item in gwas_run_list": find_trait, then
\* insert_gwas_run returns the id of a row the SELECT finds, or inserts
\* and returns the new id, or None when the INSERT returned no row
RunsInsert ==
  /\ rpc = "loop"
  /\ ridx <= Len(rlist)
  /\ LET item  == rlist[ridx]
         t     == find_trait(item.trait)
         known == RunFound(t, item.nSNPs, item.nLines)
     IN  IF known # {}
           THEN /\ \E r \in known : rids' = Append(rids, r.id)
                /\ ridx' = ridx + 1
                /\ UNCHANGED <<rtable, rnext, rpc>>
           ELSE IF Refused(item.nSNPs, item.nLines)
             THEN /\ rpc' = "raised"
                  /\ UNCHANGED <<rtable, rnext, rids, ridx>>
             ELSE IF RunConflict(t, item.nSNPs, item.nLines) # {}
               THEN /\ rids' = Append(rids, NoneId)
                    /\ rnext' = rnext + 1
                    /\ ridx' = ridx + 1
                    /\ UNCHANGED <<rtable, rpc>>
               ELSE /\ rtable' = rtable \cup
                         {[id |-> rnext, trait |-> t,
                           nsnps |-> item.nSNPs, nlines |-> item.nLines]}
                    /\ rnext' = rnext + 1
                    /\ rids' = Append(rids, rnext)
                    /\ ridx' = ridx + 1
                    /\ UNCHANGED rpc
  /\ UNCHANGED <<runInput, rlist, rret, notRunVars>>

\* return insertedGwasRunIDs; the caller then applies the function to the
\* same file once more
RunsReturn ==
  /\ rpc = "loop"
  /\ ridx > Len(rlist)
  /\ rret' = Append(rret, [ids |-> rids, table |-> rtable])
  /\ rpc' = IF Len(rret) = 0 THEN "parse" ELSE "done"
  /\ UNCHANGED <<runInput, rlist, ridx, rids, rtable, rnext, notRunVars>>

InitRuns ==
  /\ DbIdle /\ uniq = TRUE /\ VarIdle /\ MainIdle
  /\ GwasIdle /\ FkIdle /\ ImpIdle /\ OptIdle /\ PathIdle /\ SchemaIdle
  /\ GenoIdle
  /\ rfile \in RunFiles
  /\ rhasS \in BOOLEAN /\ rhasL \in BOOLEAN /\ rnumeric \in BOOLEAN
  /\ rnullsame \in BOOLEAN
  /\ rlist = <<>> /\ ridx = 1 /\ rids = <<>> /\ rtable = {} /\ rnext = 1
  /\ rpc = "parse" /\ rret = <<>>

NextRuns == RunsParse \/ RunsInsert \/ RunsReturn

SpecRuns == InitRuns /\ [][NextRuns]_vars

----------------------------------------------------------------------------
(* Claims about the insert wrappers *)

SameKey(i, j) == i < j /\ log[i].key = log[j].key
RowsOf(k) == {r \in table : r.key = k}
AllIdle == \A p \in Procs : pc[p] = "idle"

\* C1: on a single connection, two calls of an insert wrapper with identical
\* natural-key parameters return the same non-null id, and the table holds
\* exactly one row for that key.
C1_InsertTwiceSameId ==
  nproc = 1 =>
    \A i, j \in 1..Len(log) :
      SameKey(i, j) =>
        /\ log[i].ret = log[j].ret
        /\ log[i].ret > NoneId
        /\ Cardinality(RowsOf(log[i].key)) = 1

\* C2: after any sequence of insert_species calls, two calls with identical
\* (shortname, binomial, subspecies, variety), empty or null subspecies and
\* variety included, never return two distinct ids nor leave two rows.
C2_SpeciesNaturalKeyUnique ==
  (kind = "species" /\ nproc = 1) =>
    \A i, j \in 1..Len(log) :
      SameKey(i, j) =>
        /\ ~(log[i].ret > NoneId /\ log[j].ret > NoneId /\ log[i].ret # log[j].ret)
        /\ Cardinality(RowsOf(log[i].key)) <= 1

\* C3: when the table enforces uniqueness and two sessions both pass the
\* existence check for one key before either inserts, neither call raises
\* and, once both have returned, the table holds exactly one row for the key.
C3_ConcurrentInsertDoesNotRaise ==
  uniq =>
    \A i \in 1..Len(log) :
      log[i].raced =>
        /\ log[i].ret # RaisedId
        /\ AllIdle => Cardinality(RowsOf(log[i].key)) = 1

\* C4: when the conflict-ignoring INSERT of a call returns no row because a
\* concurrent writer inserted the key after the existence check, the call
\* re-queries and returns the id of the committed row, not a null identity.
C4_RequeryAfterSuppressedConflict ==
  \A i \in 1..Len(log) :
    (log[i].suppressed /\ log[i].raced) =>
      \E r \in table :
        r.committed /\ r.key = log[i].key /\ r.id = log[i].ret

----------------------------------------------------------------------------
(* Claims about the asynchronous variant loader *)

LoadEnded == vpc \in {"done", "failed"}
NewRows == vtable \ vbefore
Surviving == Range(vdata) \ VKeys(vbefore)

\* C7: for rows E already in the table and a file of distinct positions P
\* of one (species, chromosome), the loader inserts exactly the tuples of P
\* not in E, leaves the rows of E as they were, raises no error and reports
\* the number of tuples it inserted.
C7_BulkLoadInsertsExactlyMissing ==
  (LoadEnded /\ Distinct(vdata)) =>
    /\ vpc = "done"
    /\ vbefore \subseteq vtable
    /\ VKeys(NewRows) = Surviving
    /\ Cardinality(NewRows) = Cardinality(Surviving)
    /\ vreport = Cardinality(NewRows)

\* C7 witness: the table held position 500 of (species 1, chromosome 2), the
\* file held 400, 500, 600, and the load added exactly 400 and 600.
C7_Witness ==
  /\ vpc = "done"
  /\ vdata = <<(<<1, 2, 400>>), (<<1, 2, 500>>), (<<1, 2, 600>>)>>
  /\ <<1, 2, 500>> \in VKeys(vbefore)
  /\ <<1, 2, 400>> \notin VKeys(vbefore)
  /\ VKeys(NewRows) = {<<1, 2, 400>>, <<1, 2, 600>>}
  /\ vreport = 2

\* C8: with a single writer, after any sequence of bulk loads (files that
\* repeat a position included) the variant table holds at most one row per
\* (species, chromosome, position), and the records handed to the bulk
\* append hold no tuple that is in the table or that occurs twice.
C8_NoDuplicateVariant ==
  /\ \A r1, r2 \in vtable : VKey(r1) = VKey(r2) => r1 = r2
  /\ (vpc = "validate" /\ ValidationReturned) =>
       /\ Distinct(vresults)
       /\ Range(vresults) \cap VKeys(vtable) = {}

\* C9: the bulk append is issued only after every pre-filter lookup of the
\* load has completed: when the append has run, all tuples of the file had
\* been looked up.
C9_AppendAfterAllLookups ==
  LoadEnded => (vlookups = Len(vdata) /\ vidx = Len(vdata) + 1)

\* C9 witness: an append that followed the lookups of a three-tuple file.
C9_Witness == vpc = "done" /\ Len(vdata) = 3 /\ vlookups = 3 /\ vreport > 0

----------------------------------------------------------------------------
(* Claims about the entry points and the configuration validator *)

RunPhases == {"experiment.design", "pipeline.design", "experiment.collect",
              "pipeline.collect"}
ValidateCompleted(i) == \E j \in 1..(i - 1) : phases[j] = "validate.ok"
ValidationRaised ==
  /\ mpc = "raised"
  /\ \A i \in 1..Len(phases) : phases[i] # "validate.ok"

\* C5: in every execution of an entry point no design or collect step, hence
\* no insert, starts unless validate(args) has returned without raising; and
\* if validation raised, if the dry-run flag is set, or if no selection of
\* validation steps was given, the run holds zero inserts.
C5_NoPhaseBeforeValidation ==
  /\ \A i \in 1..Len(phases) : phases[i] \in RunPhases => ValidateCompleted(i)
  /\ inserts # <<>> => ValidateCompleted(Len(phases) + 1)
  /\ (ValidationRaised \/ dryrun \/ ~sel.given) => inserts = <<>>

\* C5 witness: a run whose validation returned, whose four phases ran and
\* inserted, next to which the guarded cases are reachable as well.
C5_Witness ==
  /\ mpc = "end" /\ ~dryrun /\ sel.given
  /\ phases[Len(phases)] = "pipeline.collect"
  /\ \E i \in 1..Len(inserts) : inserts[i].kind = "genotype"

\* C6: a genotype file holding an allele code outside {-1, 0, 1, 2} reaches
\* the inserter only when genotype validation was skipped through the
\* explicit skip flag, never through a default or through the choice of the
\* validation steps.
C6_BadGenotypeOnlyThroughSkipFlag ==
  \A i \in 1..Len(inserts) :
    (inserts[i].kind = "genotype" /\ inserts[i].bad) => skipFlag = "true"

MissingSet == Range(ExpectedFields) \ present

\* C10: for a manifest missing a non-empty set M of expected keys,
\* validate_configuration raises exactly one error, which lists every key of
\* M once and no key that is present, before any path is expanded or checked.
C10_OneErrorListsAllMissingKeys ==
  (MissingSet # {} /\ mpc # "vc_keys") =>
    /\ mpc = "raised"
    /\ Len(errors) = 1
    /\ errors[1].type = "KeyError"
    /\ Range(errors[1].keys) = MissingSet
    /\ Len(errors[1].keys) = Cardinality(MissingSet)
    /\ ~expanded /\ locations = <<>> /\ checked = <<>> /\ validated = <<>>

\* C10 witness: a manifest without its three species keys after the three
\* were reported by the one error.
C10_Witness ==
  /\ MissingSet = {"species_shortname", "species_subspecies", "species_variety"}
  /\ mpc = "raised"
  /\ errors[1].keys = <<"species_shortname", "species_subspecies",
                        "species_variety">>

IsEmpty(v) == v \in {"empty_string", "null", "empty_list"}
DeclaredEmpty ==
  SelectSeq(RequiredFields,
            LAMBDA k : k \in DOMAIN values /\ IsEmpty(values[k]))

\* C11: for a manifest with all the expected keys, validate_configuration
\* fails on the empty required values with one error naming exactly the
\* required keys whose value is an empty string, null or an empty list; a
\* cutoff of 0 or 0.0 is not reported, and a manifest without an empty
\* required value passes the check.
C11_ExactlyTheEmptyKeysReported ==
  (MissingSet = {} /\ mpc \notin {"vc_keys", "vc_empty"}) =>
    IF DeclaredEmpty # <<>>
      THEN /\ mpc = "raised"
           /\ Len(errors) = 1
           /\ errors[1].type = "KeyError"
           /\ errors[1].keys = DeclaredEmpty
      ELSE \A i \in 1..Len(errors) : errors[i].type # "KeyError"

Missing(i) == fs[locations[i].filename] = "missing"
FirstMissing ==
  locations[CHOOSE i \in 1..Len(locations) :
              Missing(i) /\ \A j \in 1..(i - 1) : ~Missing(j)].filename

FilesOfStep(step) ==
  CASE step = "line"       -> {LinesPath}
    [] step = "genotype"   -> {GenoPath(c) : c \in 1..nchr}
    [] step = "variant"    -> {VarPath(c) : c \in 1..nchr}
    [] step = "kinship"    -> {KinshipPath}
    [] step = "population" -> {PopStructPath}
    [] step = "phenotype"  -> {PhenoPath}
    [] step = "runs"       -> {RunPath}
    [] step = "result"     -> {ResultsPath}
    [] OTHER               -> {}
ValidatorOfStep(step) ==
  CASE step = "line"       -> "validate_line"
    [] step = "genotype"   -> "validate_genotype"
    [] step = "variant"    -> "validate_variant"
    [] step = "kinship"    -> "validate_kinship"
    [] step = "population" -> "validate_population_structure"
    [] step = "phenotype"  -> "validate_phenotype"
    [] step = "runs"       -> "validate_runs"
    [] step = "result"     -> "validate_results"
    [] OTHER               -> "none"
TimesChecked(p) == Cardinality({i \in 1..Len(checked) : checked[i] = p})
TimesValidated(p) ==
  Cardinality({i \in 1..Len(validated) : validated[i].filename = p})

\* C13: for every selection S of the steps that name a kind of file, a call
\* of validate_configuration that returns has existence-checked and handed
\* to the matching validator every file of a kind in S, each exactly once,
\* and has neither checked nor validated a file of a kind not in S.
C13_SelectedKindsCheckedOnce ==
  mpc = "vc_ok" =>
    \A step \in Steps \ {"config"} : \A p \in FilesOfStep(step) :
      IF step \in sel.steps
        THEN /\ TimesChecked(p) = 1
             /\ TimesValidated(p) = 1
             /\ \E i \in 1..Len(validated) :
                  validated[i] = [validator |-> ValidatorOfStep(step),
                                  filename |-> p]
        ELSE TimesChecked(p) = 0 /\ TimesValidated(p) = 0

----------------------------------------------------------------------------
(* Further claims about the insert wrappers *)

\* C14: insert_phenotype called for (line, trait, "nan") when the table holds
\* a row of the same line and trait with the stored value "NaN" (and none
\* with "nan") returns the id of that row and inserts no row.
C14_NanFindsStoredNaN ==
  (kind = "phenotype" /\ nproc = 1) =>
    \A j \in 1..Len(log) :
      ( /\ log[j].key[2] = "nan"
        /\ \E i \in 1..(j - 1) : log[i].key = <<log[j].key[1], "NaN">>
        /\ \A i \in 1..(j - 1) : log[i].key[2] # "nan" )
      => /\ log[j].ret > NoneId
         /\ \E r \in table : r.id = log[j].ret /\ r.key = <<log[j].key[1], "NaN">>
         /\ RowsOf(log[j].key) = {}

\* C14 witness: "NaN" was inserted, then "nan" returned its id; one row.
C14_Witness ==
  /\ kind = "phenotype" /\ nproc = 1 /\ Len(log) = 2
  /\ log[1].key = <<"k1", "NaN">> /\ log[2].key = <<"k1", "nan">>
  /\ log[2].ret = log[1].ret /\ log[2].ret > NoneId
  /\ Cardinality(table) = 1

----------------------------------------------------------------------------
(* Claims about the loader of GWAS results *)

RunOf(row) ==
  {r \in gtable : r.trait = row.trait /\ r.nsnps = row.nsnps
                  /\ r.nlines = row.nlines}

\* C15: two result rows that reference runs differing only in nLines resolve
\* to two distinct runs, each to the run whose nLines equals its own, in
\* every state of the table, one holding a run with the same other
\* parameters and a null nLines or nSNPs included.
C15_RunsDifferingInNLinesDistinct ==
  \A i, j \in 1..Len(gresults) :
    ( /\ gfile[i].nlines # gfile[j].nlines
      /\ RunOf(gfile[i]) # {} /\ RunOf(gfile[j]) # {} )
    => /\ gresults[i] # gresults[j]
       /\ gresults[i] \in {r.id : r \in RunOf(gfile[i])}

----------------------------------------------------------------------------
(* Claims about the design and collect phases *)

\* C16: in every execution of the design and collect phases each child row
\* whose INSERT is issued carries foreign keys that are non-null ids resolved
\* earlier in the run; no child insert is issued while the id of one of its
\* parents is None.
C16_ForeignKeysResolved ==
  \A i \in 1..Len(frows) : \A k \in 1..Len(frows[i].fk) :
    frows[i].fk[k] # NoneId

----------------------------------------------------------------------------
(* Claims about an aborted import and its re-run *)

PosBefore(f, r) ==
  {<<g, q>> : g \in 1..f, q \in 1..MaxRecs + 1} \cap
  {p \in (1..Len(ifiles)) \X (1..MaxRecs + 1) :
     /\ p[2] <= Len(ifiles[p[1]])
     /\ p[1] < f \/ (p[1] = f /\ p[2] < r)}
KeyAt(p) == ifiles[p[1]][p[2]]
KeysOf(rows) == {r.key : r \in rows}
AllKeys == UNION {Range(ifiles[f]) : f \in 1..Len(ifiles)}

\* C17: when a database error occurs on the insert of record k of a
\* per-file import loop the import aborts: every record before k is
\* committed, and k is the last record that was attempted, in that file and
\* in the later ones; a run that has not aborted has committed every record
\* it attempted, so that no failed record is passed over.
C17_ErrorAbortsImport ==
  /\ ipc = "aborted" =>
       /\ KeysOf(itable) = {KeyAt(p) : p \in PosBefore(ifi, iri)}
       /\ Range(iattempts) = PosBefore(ifi, iri) \cup {<<ifi, iri>>}
       /\ Len(iattempts) = Cardinality(PosBefore(ifi, iri)) + 1
       /\ iattempts[Len(iattempts)] = <<ifi, iri>>
  /\ ipc # "aborted" =>
       \A p \in Range(iattempts) : KeyAt(p) \in KeysOf(itable)

\* C17 witness: the error hit the first record of the second file, records
\* of the first file are committed, and a record follows the failed one.
C17_Witness ==
  /\ ipc = "aborted" /\ ifi = 2 /\ iri = 1
  /\ Len(ifiles[2]) = 2
  /\ itable # {}

\* C18: with a single writer and the same inputs, the import run again after
\* an abort finds the rows the aborted run committed, inserts only the
\* missing ones, and ends with exactly one row per distinct natural key
\* (one species, one population, one line per name), as a run that was not
\* interrupted does.
C18_RerunRecovers ==
  ipc = "done" =>
    /\ Cardinality(ispecies) = 1
    /\ Cardinality(ipops) = 1
    /\ KeysOf(itable) = AllKeys
    /\ Cardinality(itable) = Cardinality(AllKeys)
    /\ isnap \subseteq itable

----------------------------------------------------------------------------
(* Claims about the parsing of the command line *)

\* C19: after option parsing the selection of validation steps is a subset
\* of the nine steps; "all" gives the whole set; every unknown name given
\* was warned about and is dropped; parsing ends whatever names are given.
C19_SelectionWithinSteps ==
  (opc = "parsed" /\ oargs.given) =>
    /\ ovalidate.given
    /\ Range(ovalidate.names) \subseteq Steps
    /\ "all" \in Range(oargs.names) => Range(ovalidate.names) = Steps
    /\ \A v \in Range(oargs.names) \ (Steps \cup {"all"}) :
         v \in Range(owarned)

\* C19, restricted to parse_options of __main__.py and to the unknown names
\* that are not given together with "all".
C19_MainSelectionWithinSteps ==
  (opc = "parsed" /\ oargs.given /\ oentry = "__main__") =>
    /\ ovalidate.given
    /\ Range(ovalidate.names) \subseteq Steps
    /\ "all" \in Range(oargs.names) => Range(ovalidate.names) = Steps
    /\ "all" \notin Range(oargs.names) =>
         \A v \in Range(oargs.names) \ Steps : v \in Range(owarned)

----------------------------------------------------------------------------
(* Further claims about the variant loader *)

LoadFailed == vpc \in {"failed", "lost"}

----------------------------------------------------------------------------
(* Claims about the order of a run *)

\* The place of a kind in the dependency order; 0 for the kinds the order
\* does not name (the algorithm and method tables).
Rank(k) ==
  CASE k = "species" -> 1
    [] k = "population" -> 2
    [] k = "chromosome" -> 3
    [] k = "line" -> 4
    [] k = "genotype_version" -> 5
    [] k = "trait" -> 6
    [] k = "phenotype" -> 7
    [] k = "genotype" -> 8
    [] k = "variant" -> 9
    [] k \in {"kinship", "population_structure"} -> 10
    [] k = "gwas_run" -> 11
    [] k = "gwas_result" -> 12
    [] OTHER -> 0
OrderedKinds == {k \in Kinds \cup {"gwas_result"} : Rank(k) > 0}
FullRun ==
  /\ mpc = "end" /\ Len(phases) > 0
  /\ phases[Len(phases)] = "pipeline.collect"
  /\ \A p \in DOMAIN fs : fs[p] # "missing"

\* The inserts of a run never go against the dependency order, and the
\* chromosomes of the species are all inserted before a genotype or
\* variant file is processed.
InsertsInOrder ==
  /\ \A i, j \in 1..Len(inserts) :
       (i < j /\ Rank(inserts[i].kind) > 0 /\ Rank(inserts[j].kind) > 0)
         => Rank(inserts[i].kind) <= Rank(inserts[j].kind)
  /\ \A j \in 1..Len(inserts) :
       inserts[j].kind \in {"genotype", "variant"} =>
         \A c \in 1..nchr : \E i \in 1..(j - 1) :
           inserts[i] = Ins("chromosome", c, FALSE)

\* C21: a full run inserts the kinds in the dependency order species,
\* population, chromosome, line, genotype version, trait, phenotype,
\* genotype, variant, kinship / population structure, GWAS run, GWAS
\* result: none before a kind that precedes it, every kind of the list
\* inserted by a run that went through all its phases with all files there.
C21_DependencyOrder ==
  /\ InsertsInOrder
  /\ FullRun => \A k \in OrderedKinds :
                  \E i \in 1..Len(inserts) : inserts[i].kind = k

----------------------------------------------------------------------------
(* Claims about the existence check of the insert wrappers *)

IdentityHit(p) == {r \in Visible(p) : Matches(kind, r.key, arg[p])}

\* C22: when the identity query of a find-or-create call returns a row, the
\* call returns the id of that row and writes nothing: the call ends at the
\* check, no INSERT is executed, the tables and the id sequence are after
\* the call what they were before it.
C22_FoundMeansNoWrite ==
  [][\A p \in Procs :
       (pc[p] = "exists" /\ pc'[p] # "exists" /\ IdentityHit(p) # {}) =>
         /\ pc'[p] = "idle"
         /\ table' = table /\ nextId' = nextId
         /\ Len(log') = Len(log) + 1
         /\ log'[Len(log')].proc = p
         /\ log'[Len(log')].ret \in {r.id : r \in IdentityHit(p)}]_vars

\* C22 witness: the second call for a key returned the id the first call
\* inserted under, and the table holds the one row.
C22_Witness ==
  /\ nproc = 1 /\ kind = "variant" /\ Len(log) = 2
  /\ log[1].key = log[2].key
  /\ log[2].ret = log[1].ret /\ log[2].ret > NoneId
  /\ table = {[id |-> log[1].ret, key |-> log[1].key, by |-> 1,
               committed |-> TRUE]}

----------------------------------------------------------------------------
(* Claims about the per-chromosome paths *)

\* C23: for a manifest with n >= 1 chromosomes and species shortname s the
\* validator leaves exactly n genotype paths and n variant paths, the i-th
\* being <cwd>/chr<i>_<s>.012 and <cwd>/chr<i>_<s>.012.pos; design creates
\* the chromosomes chr1..chrn, and collect looks up these names and reads
\* these paths, in this order.
C23_SamePathsInEveryPhase ==
  /\ ppc \in {"design", "collect", "end"} =>
       /\ Len(pgeno) = pn /\ Len(pvariant) = pn
       /\ \A i \in 1..pn :
            /\ pgeno[i] = pcwd \o "/chr" \o ToString(i) \o "_" \o pshort \o ".012"
            /\ pvariant[i] = pgeno[i] \o ".pos"
  /\ ppc \in {"collect", "end"} =>
       /\ Len(pchrs) = pn
       /\ \A i \in 1..pn : pchrs[i] = "chr" \o ToString(i)
  /\ ppc = "end" =>
       /\ pfound = pchrs \o pchrs
       /\ pread = pgeno \o pvariant

\* C23 witness: three chromosomes of "maize" under /data, all phases done.
C23_Witness ==
  /\ ppc = "end" /\ pn = 3
  /\ pgeno[3] = "/data/chr3_maize.012"
  /\ pread[6] = "/data/chr3_maize.012.pos"
  /\ pchrs = <<"chr1", "chr2", "chr3">>

----------------------------------------------------------------------------
(* Claims about the identity of phenotypes *)

EqualIgnoringCase(k1, k2) == k1[1] = k2[1] /\ Lower(k1[2]) = Lower(k2[2])

\* C24: the identity of a phenotype compares the value without regard to
\* letter case, in both directions: on one connection a call of
\* insert_phenotype whose value equals, ignoring case, the value of an
\* earlier call for the same line and trait (stored "NaN" and incoming "NaN"
\* or "nan", stored "nan" and incoming "NaN") returns the id of the
\* existing row, and the table holds one row for them.
C24_PhenotypeCaseInsensitive ==
  (kind = "phenotype" /\ nproc = 1) =>
    \A i, j \in 1..Len(log) :
      (i < j /\ EqualIgnoringCase(log[i].key, log[j].key)
         /\ \A h \in 1..(i - 1) : ~EqualIgnoringCase(log[h].key, log[i].key))
      => /\ log[j].ret = log[i].ret
         /\ log[j].ret > NoneId
         /\ Cardinality({r \in table :
                          EqualIgnoringCase(r.key, log[i].key)}) = 1

----------------------------------------------------------------------------
(* Claims about the schema validators *)

\* C25: a schema validator that finds violations in a file raises once,
\* after the whole file was checked, and the error raised carries all the
\* violations found for the file, and the path of the file.
C25_ErrorCarriesAllViolations ==
  (spc = "raised" /\ serr # <<>>) =>
    /\ sraised.carried = serr
    /\ sraised.path

\* The part of C25 that the validators keep: the file is checked as a whole
\* before the raise, the error carries the first violation, and a log line
\* holds the path.
C25_FirstViolationAndLogLine ==
  (spc = "raised" /\ serr # <<>>) =>
    /\ serr = SchemaValidate(sval)
    /\ sraised.carried = <<serr[1]>>
    /\ slogged = 1

IdentityKinds == {"phenotype", "kinship", "population_structure"}
HeaderDecides == ~sdups /\ scells = 0

\* C26: for phenotype, kinship and population-structure files the first
\* column is the identity column under any accepted spelling: a file is
\* accepted on its header iff the name equals, ignoring case, one of
\* genotype, pedigree, line, taxa; repeated identity values make a kinship
\* or population-structure file fail, and not a phenotype file.
C26_IdentityColumn ==
  (sval \in IdentityKinds /\ spc # "start") =>
    /\ HeaderDecides => (spc = "returned" <=> WholeNameMatch(sheader))
    /\ (WholeNameMatch(sheader) /\ sdups /\ scells = 0) =>
         (spc = "raised" <=> sval \in {"kinship", "population_structure"})

\* The part of C26 about repeated identity values, on the headers that
\* every one of the three validators accepts.
C26_RepeatedIdentityValues ==
  (sval \in IdentityKinds /\ spc # "start" /\ sheader = Pedigree
     /\ sdups /\ scells = 0) =>
    (spc = "raised" <=> sval \in {"kinship", "population_structure"})

----------------------------------------------------------------------------
(* Claims about the run context *)

ValidationReturnedOk == \E i \in 1..Len(phases) : phases[i] = "validate.ok"

\* C27: when validate(args) returns without error the run context holds the
\* resolved configuration under the names the phases read (args.conf and
\* its keys): the import that follows does not fail on a context field that
\* is missing.
C27_ContextSetByValidation ==
  ValidationReturnedOk =>
    \A i \in 1..Len(errors) : errors[i].type # "AttributeError"

----------------------------------------------------------------------------
(* Claims about the pairing of genotypes and lines *)

\* C28: insert_genotypes_from_file pairs by index, in file order: when it
\* returns, every row of the matrix has its genotype, the i-th bound to the
\* line named on the i-th row of the line file, and the ids are returned in
\* that order; no row is passed over or bound to no line or to another
\* line, files of different lengths and names that are no lines included.
C28_PairedByIndex ==
  ypc = "done" =>
    /\ Len(yids) = ymatrix
    /\ \A i \in 1..ymatrix :
         \E r \in yrows :
           /\ r.id = yids[i] /\ r.row = i
           /\ i <= Len(ylines)
           /\ ylines[i] \in yknown
           /\ r.line = LineId(ylines[i])

\* C28 for the files of equal length whose names are all lines of the
\* population.
C28_PairedByIndexWhenComplete ==
  (ypc = "done" /\ Len(ylines) = ymatrix /\ Range(ylines) \subseteq yknown) =>
    /\ Len(yids) = ymatrix
    /\ \A i \in 1..ymatrix :
         \E r \in yrows :
           r.id = yids[i] /\ r.row = i /\ r.line = LineId(ylines[i])

----------------------------------------------------------------------------
(* Claims about the reference genome line *)

DesignReturned ==
  fpc \in {"algorithms", "phenotype", "genotype", "variant", "kinship", "end"}
GenotypeVersionRows ==
  {i \in 1..Len(frows) : frows[i].kind = "genotype_version"}

\* C29: in experiment.design, when the reference genome line named in the
\* manifest is no line of the population once the line file is imported,
\* design raises and inserts no genotype_version row; and when design
\* returns, the genotype_version_id it stored is not None and the
\* reference_genome of the row is the id of that line.
C29_ReferenceGenomeLine ==
  /\ (~fref /\ fpc \notin {"species", "population", "chromosome", "line",
                            "genotype_version"}) =>
       (fpc = "raised" /\ GenotypeVersionRows = {})
  /\ \A i \in GenotypeVersionRows : frows[i].fk[1] # NoneId
  /\ DesignReturned =>
       /\ fref
       /\ fid.genotype_version # NoneId
       /\ \E i \in GenotypeVersionRows :
            frows[i].fk[1] = FindReturns(fid.line, fid.population)

\* C29 witness: the lines were imported, the reference line was not among
\* them, and design raised.
C29_Witness ==
  /\ ~fref /\ fpc = "raised"
  /\ \E i \in 1..Len(frows) : frows[i].kind = "line"
  /\ fid.line # NoneId

----------------------------------------------------------------------------
(* Claims about the loader of GWAS runs *)

AppliedTwice == rpc = "done" /\ Len(rret) = 2
DistinctRuns == {RunOfRow(rfile[i]) : i \in 1..Len(rfile)}
SecondCallAddsNothing ==
  /\ rret[2].ids = rret[1].ids
  /\ rret[2].table = rret[1].table
  /\ Cardinality(rret[1].table) = Cardinality(DistinctRuns)
  /\ Len(rret[1].ids) = Cardinality(DistinctRuns)

\* C30: insert_gwas_runs_from_gwas_results_file applied twice to the same
\* file with the same run parameters returns the same list of run ids and
\* adds no row the second time, one run for each distinct (trait, nSNPs,
\* nLines) of the file, also when the file has no nSNPs or nLines column or
\* has missing values in them.
C30_RunsInsertedOnce == AppliedTwice => SecondCallAddsNothing

\* The same for files that have both columns and no missing value.
C30_RunsInsertedOnceWhenValuesPresent ==
  (/\ AppliedTwice
   /\ rhasS /\ rhasL
   /\ \A i \in 1..Len(rfile) : rfile[i].nSNPs # NaN /\ rfile[i].nLines # NaN)
    => SecondCallAddsNothing

=============================================================================
